---- MODULE Spec2Model ----
(***************************************************************************)
(* IADS (Integrated Adaptive Detection System) for Ryu: the scheduler     *)
(* loop of iads_ultimate.py, the Active Probing Scheduler of              *)
(* modules/aps.py, the Probe Executor of modules/pe.py and the trigger    *)
(* table of modules/em.py.                                                *)
(*                                                                         *)
(* Numbers.  The program computes with floats; the model uses fixed point:*)
(*   seconds      in thousandths  (probe_interval 10.0 s  = 10000)        *)
(*   eig, urgency, uncertainty, stability, policy_match, event_trig       *)
(*                in hundredths   (urgency 2.0 = 200)                     *)
(*   priority, reward in thousandths (weights are tenths: 0.4 = 4)        *)
(*   rtt means    in tenths of a millisecond (10.0 ms = 100)              *)
(*   the bandit's mean as exact fractions, its precision as integers      *)
(*                                                                         *)
(* The bandit.  Thompson sampling may return any arm whatever the         *)
(* posterior, so the probe loop draws its strategy from all four arms and *)
(* keeps the posterior as it is; the posterior, the recorded contexts and *)
(* the updates are followed in SpecCMAB.                                  *)
(*                                                                         *)
(* Scheduling.  Handlers and the probe loop are eventlet greenlets: one   *)
(* runs at a time and gives up control only where it suspends (hub.sleep, *)
(* the wait for the probe workers).  The probe workers are threads of a   *)
(* ThreadPoolExecutor and run at any time.                                *)
(***************************************************************************)
EXTENDS Integers, Sequences, FiniteSets, Bags, TLC

\* ------------------------------------------------------------- bounds
MaxSwitchEvents == 2
MaxLinks == 1
MaxDpids == 1
MaxRounds == 2
MaxTimeouts == 1
\* the scheduler called directly: links in the pool, largest k, calls made
MaxPoolLinks == 2
MaxK == 6
MaxApiCalls == 3
\* the event manager called directly: calls made
MaxEmCalls == 5
\* values fed to the rtt of L1
MaxFeeds == 12
\* the fusion unit called directly: calls made
MaxRfuCalls == 6
\* the bandit: selections and updates made
MaxSelections == 2
MaxUpdates == 2
MaxStoredEvents == 10001
MaxCtlcCalls == 3
MaxClockedEvents == 1
\* workers that have read a counter of the statistics and not yet written it
MaxPendingReads == 1
\* the probe executor called directly: calls made
MaxPeCalls == 2

\* ---------------------------------------------------------- constants
top_k == 5
probe_interval_default == 10000
probe_interval_min == 1000
probe_interval_max == 60000
max_uncertainty == 200
target_stability == 100
kp == 10
w_eig == 4
w_urgency == 3
w_policy_match == 2
w_event_trig == 1
boot_sleep_seconds == 10
init_sleep_seconds == 1
max_urgency == 200
max_stability == 500
events_maxlen == 10000
sliding_window == 300
max_recent_events == 100
age_cap == sliding_window + 1
\* rtt in tenths of a millisecond: initial mean 10.0, initial variance 100.0
\* and noise variance 1.0 as whole numbers
rtt_initial_mu == 100
rtt_initial_sigma2 == 100
rtt_noise == 1
beta_initial == 1
rtt_spike_factor == 3
history_min == 10
history_maxlen == 100
uncertainty_weight == 7
cost_weight == 3
max_uncertainty_reduction == 100
n_features == 4
\* the value that ends the sequence fed to L1.rtt, 40 ms
rtt_spike_value == 400
\* elapsed seconds past which urgency is 2.0 whatever the interval
elapsed_cap == (max_urgency * probe_interval_max) \div 100000

METRICS == <<"rtt", "plr", "bandwidth", "liveness">>
MetricSet == {METRICS[i] : i \in 1..Len(METRICS)}

CMAB_STRATEGIES ==
  {"focus_uncertainty", "highfreq_unstable", "coverage_balancer", "event_trigger"}

\* A link is <<src_dpid, src_port, dst_dpid, dst_port>>; its entity_id is the
\* string "{src_dpid}-{src_port}:{dst_dpid}-{dst_port}".  With one-digit
\* numbers the strings compare as the tuples do.
AllLinks == << <<1, 1, 2, 1>>, <<1, 2, 3, 1>>, <<2, 2, 3, 2>> >>
LinkSet == {AllLinks[i] : i \in 1..MaxLinks}
PoolLinkSet == {AllLinks[i] : i \in 1..MaxPoolLinks}
DpidSet == 1..MaxDpids
LoopIds == 1..MaxSwitchEvents
Keys == (LinkSet \cup PoolLinkSet) \X MetricSet

\* stability values a state may report (0, 2.0, 20.0) and intervals a caller
\* may pass to set_probe_interval
StabilityVals == {0, 200, 2000}
IntervalVals == {-5000, 500, 30000, 900000}
\* the metrics whose states a direct caller measures and retimes
CalledMetrics == {"rtt", "liveness"}
\* the two links of the bootstrap topology, "1-1:2-1" and "1-2:3-1"
L1 == AllLinks[1]
L2 == AllLinks[2]
\* context vectors the states of ESM may give, each component 0 or 1, and
\* rewards -0.3, 0.2 and 0.7
ContextVals == {<<0, 0, 0, 0>>, <<1, 0, 0, 0>>, <<1, 1, 0, 0>>, <<0, 1, 1, 1>>}
RewardVals == {-300, 200, 700}
\* Beta parameters a caller writes into a liveness state
BetaVals == {<<1, 9>>, <<1, 10>>, <<4, 1>>, <<8, 2>>, <<9, 1>>}

\* ------------------------------------------------------------ helpers
Min(a, b) == IF a <= b THEN a ELSE b
Max(a, b) == IF a >= b THEN a ELSE b
Range(s) == {s[i] : i \in 1..Len(s)}

RECURSIVE LexLess(_, _)
LexLess(a, b) ==
  IF a = <<>> THEN b # <<>>
  ELSE IF b = <<>> THEN FALSE
  ELSE IF Head(a) # Head(b) THEN Head(a) < Head(b)
  ELSE LexLess(Tail(a), Tail(b))

VARIABLES
  \* IADSUltimateApp
  switch_events, pending_starts, probe_thread, iads_monitoring_active,
  initialization_done, total_rounds, stop_called, iads_datapaths,
  \* the probe loops: position, locals, and the steps of the current round
  pc, sel, init_tasks, trace,
  \* topology service, ESM, EM, UQ
  topo_links, entities, states, core_entities, task_pool,
  probe_interval, stability, elapsed, nmeas, eig, event_triggers,
  \* APS
  selected_strategy, api_result, api_calls,
  \* PE
  datapath, probe_results, workers, timeouts, pe_stats,
  \* RFU
  rfu_cache, reward,
  \* ESM distributions: Beta(alpha, beta) of liveness, posterior mean of rtt
  beta_params, gauss_mu,
  \* EM: the history of each rtt state, the events of the last pass, the
  \* event store and the events of the sliding window
  measurement_history, em_events, events_deque, recent_events,
  \* CMAB: posterior of each arm, the recorded selections, the context ESM
  \* yields, and the updates made
  cmab_mu, Sigma_inv, cmab_history, esm_context, update_calls

appVars == <<switch_events, pending_starts, probe_thread, iads_monitoring_active,
             initialization_done, total_rounds, stop_called, iads_datapaths>>
loopVars == <<pc, sel, init_tasks, trace>>
topoVars == <<topo_links, entities, states, core_entities, task_pool>>
esmVars == <<probe_interval, stability, elapsed, nmeas, eig, event_triggers>>
apsVars == <<selected_strategy, api_result, api_calls>>
peVars == <<datapath, probe_results, workers, timeouts, pe_stats>>
emVars == <<measurement_history, em_events>>
logVars == <<events_deque, recent_events>>
distVars == <<beta_params, gauss_mu, reward>>
cmabVars == <<cmab_mu, Sigma_inv, cmab_history, esm_context, update_calls>>
vars == <<appVars, loopVars, topoVars, esmVars, apsVars, peVars, rfu_cache,
          emVars, logVars, distVars, cmabVars>>

\* ------------------------------------------------ ESM (modules/esm.py)
\* the state table in insertion order: entities in the order they were
\* added, and for each the four metrics
StateKeys ==
  [i \in 1..(Len(entities) * Len(METRICS)) |->
     <<entities[((i - 1) \div Len(METRICS)) + 1], METRICS[((i - 1) % Len(METRICS)) + 1]>>]

\* states.get((entity_id, metric)): the EntityState of key k, if there is one
get_state(k) == k \in states

\* differential entropy of the posterior after n measurements, from the
\* initial distributions and noise variances of config.py
EntropyTable ==
  [m \in MetricSet |->
     CASE m = "rtt" -> <<372, 141, 107, 87, 72, 61, 52>>
       [] m = "plr" -> <<-203, -238, -258, -273, -284, -293, -301>>
       [] m = "bandwidth" -> <<487, 257, 222, 202, 188, 176, 167>>
       [] m = "liveness" -> <<0, -19, -43, -64, -81, -96, -109>>]

\* expected information gain of one more measurement after n measurements
EIGTable ==
  [m \in MetricSet |->
     CASE m = "rtt" -> <<231, 34, 20, 14, 11, 9, 8>>
       [] m = "plr" -> <<35, 20, 14, 11, 9, 8, 7>>
       [] m = "bandwidth" -> <<231, 34, 20, 14, 11, 9, 8>>
       [] m = "liveness" -> <<19, 14, 10, 8, 7, 6, 5>>]

TableAt(t, n) == t[Min(n + 1, Len(t))]

\* the differential entropy of the posterior of state k
get_entropy(k) == TableAt(EntropyTable[k[2]], nmeas[k])
\* U(i,m): the entropy, clamped to [0, max_uncertainty] for scheduling
get_uncertainty(k) == Max(0, Min(max_uncertainty, TableAt(EntropyTable[k[2]], nmeas[k])))
get_stability(k) == stability[k]

\* urgency = min((now - last_probe_time) / T, 2.0), T the interval in pi
get_urgency(k, pi) == Min((elapsed[k] * 100000) \div pi[k], max_urgency)

\* Beta(alpha, beta) of a liveness state: get_confidence is alpha / (alpha +
\* beta).  Every liveness probe the executor reports carries value True and
\* adds one to alpha.
get_confidence_num(k) == beta_params[k][1]
get_confidence_den(k) == beta_params[k][1] + beta_params[k][2]

\* posterior mean of a Gaussian state that has seen n measurements, after c
\* more of sum total: the precisions are 1 / sigma2 for the prior and
\* 1 / noise for each measurement
gaussian_update(mu, n, c, total) ==
  LET w == rtt_initial_sigma2 \div rtt_noise
  IN (mu * (1 + w * n) + w * total) \div (1 + w * (n + c))

set_probe_interval(T) == Max(probe_interval_min, Min(probe_interval_max, T))

\* add_entity without the test for a registered entity
add_entity_again(ents, e) == Append(ents, e)

\* add_entity(entity_id): a registered entity is left alone, a new one is
\* appended to the entity list
add_entity(ents, e) == IF e \in Range(ents) THEN ents ELSE Append(ents, e)

\* a state for the round-trip time only
create_rtt_state(e) == {<<e, "rtt">>}

\* the EntityStates add_entity creates for a new entity: one per metric
create_states(e) == {<<e, m>> : m \in MetricSet}

\* a created EntityState starts from the initial distribution of its metric,
\* the default interval, no measurement and last_probe_time = now
initial_states(new) ==
  /\ probe_interval' =
       [k \in Keys |-> IF k \in new THEN probe_interval_default ELSE probe_interval[k]]
  /\ stability' = [k \in Keys |-> IF k \in new THEN 0 ELSE stability[k]]
  /\ elapsed' = [k \in Keys |-> IF k \in new THEN 0 ELSE elapsed[k]]
  /\ nmeas' = [k \in Keys |-> IF k \in new THEN 0 ELSE nmeas[k]]
  /\ beta_params' =
       [k \in Keys |-> IF k \in new THEN <<beta_initial, beta_initial>> ELSE beta_params[k]]
  /\ gauss_mu' = [k \in Keys |-> IF k \in new THEN rtt_initial_mu ELSE gauss_mu[k]]

\* -------------------------------------------------- UQ (modules/uq.py)
calculate_eig(k) == TableAt(EIGTable[k[2]], nmeas[k])

\* update_entity_list: the pool gains the tasks of the entities it lacks
RECURSIVE update_entity_list(_, _, _)
update_entity_list(pool, ents, i) ==
  IF i > Len(ents) THEN pool
  ELSE update_entity_list(
         IF \E j \in 1..Len(pool) : pool[j][1] = ents[i]
         THEN pool
         ELSE pool \o [j \in 1..Len(METRICS) |-> <<ents[i], METRICS[j]>>],
         ents, i + 1)

\* -------------------------------------------------- EM (modules/em.py)
get_event_trigger(k) == IF k \in event_triggers THEN 100 ELSE 0

\* measurement_history[key].append(current_value) on a deque(maxlen=100)
appended(h, x) == IF Len(h) >= history_maxlen THEN Append(Tail(h), x) ELSE Append(h, x)

\* the sums np.mean and np.std are made of, by halves of the sequence
RECURSIVE SeqSum(_)
SeqSum(q) ==
  IF q = <<>> THEN 0
  ELSE IF Len(q) = 1 THEN q[1]
  ELSE SeqSum(SubSeq(q, 1, Len(q) \div 2)) + SeqSum(SubSeq(q, Len(q) \div 2 + 1, Len(q)))
RECURSIVE SeqSumSq(_)
SeqSumSq(q) ==
  IF q = <<>> THEN 0
  ELSE IF Len(q) = 1 THEN q[1] * q[1]
  ELSE SeqSumSq(SubSeq(q, 1, Len(q) \div 2)) + SeqSumSq(SubSeq(q, Len(q) \div 2 + 1, Len(q)))

\* The measurement rule on the history h of an rtt state, the current mean
\* last.  With n earlier values of sum s1 and sum of squares s2, hist_mean is
\* s1 / n and hist_std^2 is (n * s2 - s1^2) / n^2; the comparisons of the
\* code are made on n^2 times their squares.  The severity
\* min(|dev| / (5 * hist_std), 1) is rounded down to a multiple of 0.2.
spike_rule(h, enough) ==
  LET n == Len(h) - 1
      past == SubSeq(h, 1, n)
      var_n2 == n * SeqSumSq(past) - SeqSum(past) * SeqSum(past)
      dev_n == h[Len(h)] * n - SeqSum(past)
  IN /\ Len(h) >= enough
     /\ var_n2 > 0
     /\ dev_n * dev_n > rtt_spike_factor * rtt_spike_factor * var_n2

\* the rule applied as soon as the history has two earlier values
detect_rtt_spike_early(h) ==
  IF spike_rule(h, 3) THEN {[event_type |-> "rtt_spike", severity |-> 100]} ELSE {}

detect_rtt_spike(h) ==
  LET n == Len(h) - 1
      past == SubSeq(h, 1, n)
      var_n2 == n * SeqSumSq(past) - SeqSum(past) * SeqSum(past)
      dev_n == h[Len(h)] * n - SeqSum(past)
      fifths == CHOOSE t \in 0..5 :
                  /\ t * t * var_n2 <= dev_n * dev_n
                  /\ (t < 5 => (t + 1) * (t + 1) * var_n2 > dev_n * dev_n)
  IN IF /\ Len(h) >= history_min
        /\ var_n2 > 0
        /\ dev_n * dev_n > rtt_spike_factor * rtt_spike_factor * var_n2
     THEN {[event_type |-> "rtt_spike", severity |-> 20 * fifths]}
     ELSE {}

\* the liveness rule with p_up <= liveness_threshold
detect_liveness_inclusive(k) ==
  IF get_confidence_num(k) * 10 <= 8 * get_confidence_den(k)
  THEN {[event_type |-> "liveness_low",
         severity |-> 100 - (100 * get_confidence_num(k)) \div get_confidence_den(k)]}
  ELSE {}

\* the liveness rule: p_up < liveness_threshold gives liveness_low with
\* severity 1 - p_up
detect_liveness(k) ==
  IF get_confidence_num(k) * 10 < 8 * get_confidence_den(k)
  THEN {[event_type |-> "liveness_low",
         severity |-> 100 - (100 * get_confidence_num(k)) \div get_confidence_den(k)]}
  ELSE {}

\* the events _detect_anomalies finds on state k; h is the history of k with
\* the current mean appended.  The code keeps a history for plr and bandwidth
\* too and never reads it: the model keeps the one of rtt.
detect_anomalies(k, h) ==
  IF k[2] = "liveness"
  THEN detect_liveness(k)
  ELSE (IF get_stability(k) * 5 > 300
        THEN {[event_type |-> "high_instability", severity |-> Min(get_stability(k), 100)]}
        ELSE {})
       \cup (IF k[2] = "rtt" THEN detect_rtt_spike(h) ELSE {})

\* the trigger table with every state's entry written, 0.0 when it has no event
set_triggers_reset(trig, k, events) ==
  IF events = {} THEN trig \ {k}
  ELSE trig \cup {k}
       \cup (IF k[1] \in core_entities /\ k[2] = "rtt"
             THEN {<<k[1], "plr">>, <<k[1], "bandwidth">>} ELSE {})

\* the trigger table after the events of state k: the trigger of k, and for
\* a core entity's rtt those of its plr and bandwidth
set_triggers(trig, k, events) ==
  IF events = {} THEN trig
  ELSE trig \cup {k}
       \cup (IF k[1] \in core_entities /\ k[2] = "rtt"
             THEN {<<k[1], "plr">>, <<k[1], "bandwidth">>} ELSE {})

\* the loop of check_and_detect_events over the state table from entry i
RECURSIVE detect_from(_, _)
detect_from(i, acc) ==
  IF i > Len(StateKeys) THEN acc
  ELSE LET k == StateKeys[i]
           h == IF k[2] = "rtt" THEN appended(acc.history[k], gauss_mu[k])
                ELSE acc.history[k]
           events == detect_anomalies(k, h)
       IN detect_from(i + 1,
            [triggers |-> set_triggers(acc.triggers, k, events),
             events |-> acc.events \cup
                          {[key |-> k, event_type |-> e.event_type, severity |-> e.severity] :
                             e \in events},
             history |-> [acc.history EXCEPT ![k] = h]])

\* self.events = deque(maxlen=10000): the events by their number in
\* stats['total_events'], the oldest first
events_append(q) ==
  LET number == IF q = <<>> THEN 1 ELSE q[Len(q)] + 1
  IN Append(IF Len(q) >= events_maxlen THEN Tail(q) ELSE q, number)

RECURSIVE events_extended(_, _)
events_extended(q, n) == IF n = 0 THEN q ELSE events_extended(events_append(q), n - 1)

\* the window left as it is
keep_recent_events(q) == q

\* _clean_recent_events(current_time): recent_events holds the age
\* current_time - timestamp of each event of the window, the oldest first;
\* events with timestamp < current_time - sliding_window leave from the left
RECURSIVE clean_recent_events(_)
clean_recent_events(q) ==
  IF q # <<>> /\ Head(q) > sliding_window THEN clean_recent_events(Tail(q)) ELSE q

\* check_and_detect_events on the event store: the window is cleaned, then
\* _add_event appends each of the n events of the pass to both deques
add_events(n) ==
  /\ events_deque' = events_extended(events_deque, n)
  /\ recent_events' = clean_recent_events(recent_events) \o [i \in 1..n |-> 0]

\* the ages after d more seconds; an age beyond the window is kept as age_cap
aged(d) == [i \in DOMAIN recent_events |-> Min(recent_events[i] + d, age_cap)]

\* get_num_recent_events_normalized, in hundredths
get_num_recent_events_normalized ==
  Min((Len(recent_events) * 100) \div max_recent_events, 100)

\* the pass without self.event_triggers.clear()
check_uncleared ==
  detect_from(1, [triggers |-> event_triggers, events |-> {},
                  history |-> measurement_history])

\* check_and_detect_events: the triggers are cleared, then every state is
\* examined; events are the events this pass adds
check_and_detect_events ==
  detect_from(1, [triggers |-> {}, events |-> {}, history |-> measurement_history])

\* the trigger table after one pass
detect_pass == check_and_detect_events.triggers

\* ------------------------------------------------ APS (modules/aps.py)
\* the controller with its sign turned: 1 - Kp * (1 - S / S_target)
raw_adjust_reversed(current_interval, stab) ==
  LET adjustment_factor ==
        1000 - (kp * ((100 * (target_stability - stab)) \div target_stability)) \div 10
  IN (current_interval * adjustment_factor) \div 1000

\* CTLC: T_new = T_old * (1 + Kp * (1 - S / S_target)), clamped
raw_adjust(current_interval, stab) ==
  LET adjustment_factor ==
        1000 + (kp * ((100 * (target_stability - stab)) \div target_stability)) \div 10
  IN (current_interval * adjustment_factor) \div 1000

\* adjust_probe_interval without its max(min_interval, min(max_interval, .))
adjust_probe_interval_unclamped(current_interval, stab) ==
  raw_adjust(current_interval, stab)

adjust_probe_interval(current_interval, stab) ==
  Max(probe_interval_min, Min(probe_interval_max, raw_adjust(current_interval, stab)))

\* batch_adjust: the adjustments of one sweep over the state table
batch_adjust ==
  {[key |-> k, old_interval |-> probe_interval[k],
    new_interval |-> adjust_probe_interval(probe_interval[k], get_stability(k)),
    stability |-> get_stability(k)] :
     k \in {q \in Range(StateKeys) :
              adjust_probe_interval(probe_interval[q], get_stability(q)) # probe_interval[q]}}

\* the interval table after the sweep
swept_intervals ==
  [k \in Keys |->
     LET new_interval == adjust_probe_interval(probe_interval[k], get_stability(k))
     IN IF get_state(k) /\ new_interval # probe_interval[k]
        THEN set_probe_interval(new_interval)
        ELSE probe_interval[k]]

calculate_policy_match(k, strategy, event_triggered) ==
  IF ~get_state(k) THEN 0
  ELSE CASE strategy = "focus_uncertainty" ->
              (get_uncertainty(k) * 100) \div max_uncertainty
         [] strategy = "highfreq_unstable" -> get_stability(k)
         [] strategy = "coverage_balancer" -> 100
         [] strategy = "event_trigger" -> IF event_triggered THEN 100 ELSE 0
         [] OTHER -> 0

\* the four values added without their weights
calculate_priority_unweighted(e, urg, policy_match, event_trig) ==
  e + urg + policy_match + event_trig

calculate_priority(e, urg, policy_match, event_trig) ==
  w_eig * e + w_urgency * urg + w_policy_match * policy_match + w_event_trig * event_trig

\* the entry select_top_k builds for one task of the pool
prio_entry(k, strategy, pi) ==
  LET urg == get_urgency(k, pi)
      trig == get_event_trigger(k)
      pm == calculate_policy_match(k, strategy, trig > 0)
  IN [task |-> k,
      priority |-> calculate_priority(eig[k], urg, pm, trig),
      components |-> [eig |-> eig[k], urgency |-> urg,
                      policy_match |-> pm, event_trig |-> trig]]

\* list.sort(key=priority, reverse=True): stable, equal priorities keep the
\* order they had.  The entry at position i moves behind the entries of
\* higher priority and the earlier entries of its own priority.
sort_desc(s) ==
  LET before(i) == {j \in 1..Len(s) : \/ s[j].priority > s[i].priority
                                       \/ (s[j].priority = s[i].priority /\ j < i)}
  IN [r \in 1..Len(s) |-> s[CHOOSE i \in 1..Len(s) : Cardinality(before(i)) = r - 1]]

\* select_top_k: an entry for every task of the pool that has a state, sorted,
\* cut to the first k
ranked(pool, strategy, pi) ==
  LET HasState(t) == get_state(t)
      with_state == SelectSeq(pool, HasState)
      task_priorities == [i \in 1..Len(with_state) |-> prio_entry(with_state[i], strategy, pi)]
  IN sort_desc(task_priorities)

\* select_top_k returning task_priorities instead of task_priorities[:k]
select_top_k_uncut(pool, strategy, pi, k) == ranked(pool, strategy, pi)

\* select_top_k returning task_priorities[:k - 1]
select_top_k_short(pool, strategy, pi, k) ==
  LET task_priorities == ranked(pool, strategy, pi)
  IN SubSeq(task_priorities, 1, Min(Max(k - 1, 0), Len(task_priorities)))

select_top_k(pool, strategy, pi, k) ==
  LET task_priorities == ranked(pool, strategy, pi)
  IN SubSeq(task_priorities, 1, Min(k, Len(task_priorities)))

\* ------------------------------------------------ RFU (modules/rfu.py)
\* the tasks of every result, failed or not
attempted(results) ==
  {r.task : r \in {x \in BagToSet(results) : get_state(x.task)}}

\* the states process_results updates: the tasks of the successful results
succeeded(results) ==
  {r.task : r \in {x \in BagToSet(results) : x.success /\ get_state(x.task)}}

\* the value of a result: the rtt the executor reports when it has no reply
\* time on record is 10.0
result_value(r) == IF "value" \in DOMAIN r THEN r.value ELSE rtt_initial_mu

RECURSIVE BagCount(_, _)
BagCount(results, S) ==
  IF S = {} THEN 0
  ELSE LET r == CHOOSE x \in S : TRUE
       IN CopiesIn(r, results) + BagCount(results, S \ {r})

RECURSIVE ValueSum(_, _)
ValueSum(results, S) ==
  IF S = {} THEN 0
  ELSE LET r == CHOOSE x \in S : TRUE
       IN CopiesIn(r, results) * result_value(r) + ValueSum(results, S \ {r})

\* the successful results of task k
successes(results, k) == {r \in BagToSet(results) : r.task = k /\ r.success}
occurrences(results, k) == BagCount(results, successes(results, k))

\* U as the scheduler uses it: clamped to [0, max_uncertainty]
raw_uncertainty(k, n) == TableAt(EntropyTable[k[2]], n)
clamped_uncertainty(k, n) == Max(0, Min(max_uncertainty, TableAt(EntropyTable[k[2]], n)))

\* get_context_vector(): (u_mean, s_mean, urgency_mean, event_rate) in
\* hundredths, the first three the means over all states of U / max_uncertainty
\* with U clamped to [0, max_uncertainty], of S / max_stability with S clamped
\* to [0, max_stability], and of the urgency; the zero vector without states
get_context_vector ==
  LET n == Len(StateKeys)
      u == [i \in 1..n |->
              (clamped_uncertainty(StateKeys[i], nmeas[StateKeys[i]]) * 100) \div max_uncertainty]
      st == [i \in 1..n |->
              (Min(get_stability(StateKeys[i]), max_stability) * 100) \div max_stability]
      urg == [i \in 1..n |-> get_urgency(StateKeys[i], probe_interval)]
  IN IF n = 0 THEN <<0, 0, 0, 0>>
     ELSE <<SeqSum(u) \div n, SeqSum(st) \div n, SeqSum(urg) \div n,
            get_num_recent_events_normalized>>

\* cache_states_before_probe: U_before of every selected task that has a state
cache_states_before_probe(tasks) ==
  {<<t, clamped_uncertainty(t, nmeas[t])>> : t \in {x \in tasks : get_state(x)}}

RECURSIVE DeltaSum(_, _)
DeltaSum(cache, n_after) ==
  IF cache = {} THEN 0
  ELSE LET c == CHOOSE x \in cache : TRUE
       IN Max(0, c[2] - clamped_uncertainty(c[1], n_after[c[1]]))
          + DeltaSum(cache \ {c}, n_after)

\* reward = w_unc * sum(dU) / (|selected| * dU_max) - w_cost * |selected| / K_max,
\* in thousandths; the selected tasks are those of the snapshot
calculate_reward(cache, n_after) ==
  LET selected == Cardinality({c[1] : c \in cache})
  IN (uncertainty_weight * 100 * DeltaSum(cache, n_after))
        \div (selected * max_uncertainty_reduction)
     - (cost_weight * 100 * selected) \div top_k

\* process_results updates the states, computes the reward and hands it to
\* aps.update_reward, which updates the bandit
process_results_steps == <<"RFU", "CMAB">>

\* the stability a state may report after an update: the sample variance of
\* its recent measurements; 0 with fewer than two, and 0 for liveness, whose
\* measurements are all True
stability_after(k, n) ==
  IF k[2] = "liveness" \/ n < 2 THEN {0} ELSE StabilityVals

\* -------------------------------------------------------------- state
Init ==
  /\ switch_events = 0
  /\ pending_starts = 0
  /\ probe_thread = 0
  /\ iads_monitoring_active = FALSE
  /\ initialization_done = FALSE
  /\ total_rounds = 0
  /\ stop_called = FALSE
  /\ iads_datapaths = {}
  /\ pc = [l \in LoopIds |-> "none"]
  /\ sel = [l \in LoopIds |-> <<>>]
  /\ init_tasks = [l \in LoopIds |-> <<>>]
  /\ trace = [l \in LoopIds |-> <<>>]
  /\ topo_links = <<>>
  /\ entities = <<>>
  /\ states = {}
  /\ core_entities = {}
  /\ task_pool = <<>>
  /\ probe_interval = [k \in Keys |-> probe_interval_default]
  /\ stability = [k \in Keys |-> 0]
  /\ elapsed = [k \in Keys |-> 0]
  /\ nmeas = [k \in Keys |-> 0]
  /\ eig = [k \in Keys |-> 0]
  /\ event_triggers = {}
  /\ selected_strategy = "none"
  /\ api_result = <<>>
  /\ api_calls = 0
  /\ datapath = 0
  /\ pe_stats = [total_probes |-> 0, successful_probes |-> 0, failed_probes |-> 0]
  /\ probe_results = EmptyBag
  /\ workers = {}
  /\ timeouts = 0
  /\ rfu_cache = {}
  /\ reward = 0
  /\ beta_params = [k \in Keys |-> <<beta_initial, beta_initial>>]
  /\ gauss_mu = [k \in Keys |-> rtt_initial_mu]
  /\ measurement_history = [k \in Keys |-> <<>>]
  /\ em_events = {}
  /\ events_deque = <<>>
  /\ recent_events = <<>>
  /\ cmab_mu = [a \in CMAB_STRATEGIES |-> [num |-> [i \in 1..n_features |-> 0], den |-> 1]]
  /\ Sigma_inv = [a \in CMAB_STRATEGIES |->
                    [i \in 1..n_features |-> [j \in 1..n_features |-> IF i = j THEN 1 ELSE 0]]]
  /\ cmab_history = <<>>
  /\ esm_context = [i \in 1..n_features |-> 0]
  /\ update_calls = 0

\* a greenlet that is not running: not started, suspended, or ended
SuspendedPCs ==
  {"none", "spawned", "boot_sleep", "init_pe_wait", "init_sleep",
   "round_pe_wait", "round_sleep", "exited", "killed"}
Quiescent == \A l \in LoopIds : pc[l] \in SuspendedPCs
\* a probe loop that has been spawned and has not ended
EndedPCs == {"none", "exited", "killed"}
Running(l) == pc[l] \notin EndedPCs

\* time passing while a greenlet sleeps d seconds
time_passes(d) ==
  [k \in Keys |-> IF get_state(k) THEN Min(elapsed[k] + d, elapsed_cap) ELSE elapsed[k]]

\* ------------------------------------------------- PE (modules/pe.py)
\* self.probe_results is a list; nothing reads the order of its entries, and
\* the model keeps it as a bag of results.
\* The futures of a batch are the workers its caller (owner) waits for.  A
\* worker whose caller has gone (timed out, or killed) runs on with owner 0;
\* gen tells the workers of different abandoned batches apart.
MaxOf(S) == IF S = {} THEN 0 ELSE CHOOSE x \in S : \A y \in S : y <= x

abandon(l) ==
  LET g == 1 + MaxOf({w.gen : w \in workers})
  IN {IF w.owner = l /\ l # 0 THEN [w EXCEPT !.owner = 0, !.gen = g] ELSE w :
        w \in workers}

\* execute_batch groups the tasks by metric and submits one worker per metric
tasks_by_metric(batch, m) ==
  LET OfMetric(x) == x.task[2] = m
      items == SelectSeq(batch, OfMetric)
  IN [i \in 1..Len(items) |-> items[i].task]

submitted(l, batch) ==
  {[owner |-> l, gen |-> 0, metric |-> m, todo |-> tasks_by_metric(batch, m),
    pending |-> <<>>] :
     m \in {batch[i].task[2] : i \in 1..Len(batch)}}

\* the result a worker appends for one task: _probe_liveness_batch succeeds
\* unless sending raises; _probe_rtt_batch finds its icmp id still pending
\* and reports a timeout; plr and bandwidth always succeed
probe_outcomes(m) ==
  CASE m = "liveness" -> {TRUE, FALSE}
    [] m = "rtt" -> {FALSE}
    [] OTHER -> {TRUE}

\* self.stats['total_probes'] += len(task_priorities), when execute_batch
\* has waited for its workers
batch_counted(batch) == [pe_stats EXCEPT !.total_probes = @ + Len(batch)]

\* The workers that make a blocking call: _probe_liveness_batch sends through
\* the datapath, _probe_rtt_batch sleeps for each task.  The plr and bandwidth
\* workers only compute, and are done long before the 30 s of the wait.
BlockingMetrics == {"liveness", "rtt"}
may_time_out(l) ==
  /\ \E w \in workers : w.owner = l
  /\ \A w \in workers : w.owner = l => w.metric \in BlockingMetrics

\* self.stats[...] += 1 of a worker is a read of the counter and a write of
\* the value read plus one, and the workers are threads: between the two
\* another worker may write the same counter.  counter_of(ok) is the counter
\* a result with success = ok is counted in.
counter_of(ok) == IF ok THEN "successful_probes" ELSE "failed_probes"
shares_counter(w, ok) ==
  \E v \in workers \ {w} : ok \in probe_outcomes(v.metric)

\* a worker reads the counter of the result it is about to count, while
\* another worker that counts in the same counter is running
worker_reads(w, ok) ==
  /\ w \in workers
  /\ w.pending = <<>>
  /\ ok \in probe_outcomes(w.metric)
  /\ shares_counter(w, ok)
  /\ Cardinality({v \in workers : v.pending # <<>>}) < MaxPendingReads
  /\ workers' = (workers \ {w}) \cup {[w EXCEPT !.pending = <<ok, pe_stats[counter_of(ok)]>>]}
  /\ UNCHANGED <<datapath, probe_results, timeouts, pe_stats>>
  /\ UNCHANGED <<appVars, loopVars, topoVars, esmVars, apsVars,
                 rfu_cache, emVars, logVars, distVars, cmabVars>>

\* the counter after the worker's increment: the value it read, plus one
counted(w, ok) ==
  [pe_stats EXCEPT ![counter_of(ok)] = IF w.pending = <<>> THEN @ + 1 ELSE w.pending[2] + 1]

\* one iteration of a worker's loop over its tasks: the result is appended
\* and counted
worker_step(w, ok) ==
  /\ w \in workers
  /\ ok \in probe_outcomes(w.metric)
  /\ w.pending # <<>> => w.pending[1] = ok
  /\ probe_results' = probe_results (+) SetToBag({[task |-> Head(w.todo), success |-> ok]})
  /\ pe_stats' = counted(w, ok)
  /\ workers' = IF Len(w.todo) = 1 THEN workers \ {w}
                ELSE (workers \ {w}) \cup {[w EXCEPT !.todo = Tail(w.todo), !.pending = <<>>]}
  /\ UNCHANGED <<datapath, timeouts>>
  /\ UNCHANGED <<appVars, loopVars, topoVars, esmVars, apsVars,
                 rfu_cache, emVars, logVars, distVars, cmabVars>>

\* ------------------------------------------------ IADSUltimateApp handlers
\* EventOFPSwitchFeatures; ok = FALSE: add_flow raised before the spawn
switch_features_handler(ok) ==
  /\ Quiescent
  /\ switch_events < MaxSwitchEvents
  /\ switch_events' = switch_events + 1
  /\ pending_starts' = IF ok /\ probe_thread = 0 THEN pending_starts + 1
                       ELSE pending_starts
  /\ UNCHANGED <<probe_thread, iads_monitoring_active, initialization_done,
                 total_rounds, stop_called, iads_datapaths>>
  /\ UNCHANGED <<loopVars, topoVars, esmVars, apsVars, peVars,
                 rfu_cache, emVars, logVars, distVars, cmabVars>>

\* the timer of hub.spawn_after(5, ...) fires
start_iads_system ==
  /\ Quiescent
  /\ pending_starts > 0
  /\ \E l \in LoopIds :
       /\ pc[l] = "none"
       /\ \A j \in LoopIds : j < l => pc[j] # "none"
       /\ pc' = [pc EXCEPT ![l] = "spawned"]
       /\ probe_thread' = l
  /\ pending_starts' = pending_starts - 1
  /\ iads_monitoring_active' = TRUE
  /\ UNCHANGED <<switch_events, initialization_done, total_rounds, stop_called,
                 iads_datapaths>>
  /\ UNCHANGED <<sel, init_tasks, trace>>
  /\ UNCHANGED <<topoVars, esmVars, apsVars, peVars, rfu_cache, emVars, logVars, distVars, cmabVars>>

\* EventOFPStateChange
state_change_handler(d, main) ==
  /\ Quiescent
  /\ IF main
     THEN /\ iads_datapaths' = iads_datapaths \cup {d}
          /\ datapath' = IF d \notin iads_datapaths /\ iads_datapaths = {}
                         THEN d ELSE datapath
     ELSE /\ iads_datapaths' = iads_datapaths \ {d}
          /\ datapath' = datapath
  /\ UNCHANGED <<switch_events, pending_starts, probe_thread, iads_monitoring_active,
                 initialization_done, total_rounds, stop_called>>
  /\ UNCHANGED <<probe_results, workers, timeouts, pe_stats>>
  /\ UNCHANGED <<loopVars, topoVars, esmVars, apsVars,
                 rfu_cache, emVars, logVars, distVars, cmabVars>>

RECURSIVE add_entities(_, _, _)
add_entities(ents, links, i) ==
  IF i > Len(links) THEN ents
  ELSE add_entities(add_entity(ents, links[i]), links, i + 1)

\* esm.add_entity for each of links, in order
esm_add_entities(links) ==
  /\ entities' = add_entities(entities, links, 1)
  /\ states' = states \cup UNION {create_states(e) : e \in Range(entities') \ Range(entities)}
  /\ initial_states(states' \ states)

\* _update_topology over the links the topology service reports;
\* ok = FALSE: get_all_switch / get_all_link raised
update_topology(links, ok) ==
  IF ok
  THEN /\ esm_add_entities(links)
       /\ core_entities' = core_entities \cup Range(links)
       /\ task_pool' = update_entity_list(task_pool, entities', 1)
  ELSE /\ UNCHANGED <<entities, states, core_entities, task_pool>>
       /\ UNCHANGED <<probe_interval, stability, elapsed, nmeas, beta_params, gauss_mu>>

\* EventSwitchEnter
switch_enter_handler(ok) ==
  /\ Quiescent
  /\ update_topology(topo_links, ok)
  /\ UNCHANGED topo_links
  /\ UNCHANGED <<eig, event_triggers, reward>>
  /\ UNCHANGED <<appVars, loopVars, apsVars, peVars, rfu_cache, emVars, logVars, cmabVars>>

\* EventLinkAdd for a link the topology service has just discovered
link_add_handler(link, ok) ==
  /\ Quiescent
  /\ link \notin Range(topo_links)
  /\ topo_links' = Append(topo_links, link)
  /\ update_topology(topo_links', ok)
  /\ UNCHANGED <<eig, event_triggers, reward>>
  /\ UNCHANGED <<appVars, loopVars, apsVars, peVars, rfu_cache, emVars, logVars, cmabVars>>

\* stop(): clears the flag and kills the greenlet probe_thread names, which
\* dies where it is suspended (GreenletExit is no Exception: no except clause
\* of the loop catches it); its probe workers keep running.  A round cut
\* while it waits for its workers is marked KILLED.
stop ==
  /\ Quiescent
  /\ ~stop_called
  /\ stop_called' = TRUE
  /\ iads_monitoring_active' = FALSE
  /\ pc' = [l \in LoopIds |->
              IF l = probe_thread /\ pc[l] \notin {"none", "exited", "killed"}
              THEN "killed" ELSE pc[l]]
  /\ workers' = abandon(probe_thread)
  /\ sel' = [l \in LoopIds |-> IF l = probe_thread THEN <<>> ELSE sel[l]]
  /\ init_tasks' = [l \in LoopIds |-> IF l = probe_thread THEN <<>> ELSE init_tasks[l]]
  /\ trace' = [l \in LoopIds |->
                 IF l = probe_thread /\ pc[l] = "round_pe_wait"
                 THEN Append(trace[l], "KILLED") ELSE trace[l]]
  /\ UNCHANGED <<switch_events, pending_starts, probe_thread, initialization_done,
                 total_rounds, iads_datapaths>>
  /\ UNCHANGED <<datapath, probe_results, timeouts, pe_stats>>
  /\ UNCHANGED <<topoVars, esmVars, apsVars, rfu_cache, emVars, logVars, distVars, cmabVars>>

\* ------------------------------------------------ IADSUltimateApp probe loop
goto(l, where) == pc' = [pc EXCEPT ![l] = where]
\* the function returns and its local task list is gone
drop(l) == sel' = [sel EXCEPT ![l] = <<>>]
step(l, name) == trace' = [trace EXCEPT ![l] = Append(@, name)]

\* process_results on the shared result list: the ESM updates of the
\* successful results
process_results(results) ==
  LET succ == succeeded(results)
  IN /\ nmeas' = [k \in Keys |-> IF k \in succ THEN nmeas[k] + occurrences(results, k)
                                  ELSE nmeas[k]]
     /\ beta_params' = [k \in Keys |->
          IF k \in succ /\ k[2] = "liveness"
          THEN <<beta_params[k][1] + occurrences(results, k), beta_params[k][2]>>
          ELSE beta_params[k]]
     /\ gauss_mu' = [k \in Keys |->
          IF k \in succ /\ k[2] = "rtt"
          THEN gaussian_update(gauss_mu[k], nmeas[k], occurrences(results, k),
                               ValueSum(results, successes(results, k)))
          ELSE gauss_mu[k]]
     /\ reward' = IF rfu_cache = {} THEN reward ELSE calculate_reward(rfu_cache, nmeas')
     /\ elapsed' = [k \in Keys |-> IF k \in succ THEN 0 ELSE elapsed[k]]
     /\ \E f \in [succ -> StabilityVals] :
          /\ \A k \in succ : f[k] \in stability_after(k, nmeas'[k])
          /\ stability' = [k \in Keys |-> IF k \in succ THEN f[k] ELSE stability[k]]
     /\ UNCHANGED <<probe_interval, eig, event_triggers>>

\* the greenlet starts: logs, then hub.sleep(10)
loop_boot(l) ==
  /\ Quiescent
  /\ pc[l] = "spawned"
  /\ goto(l, "boot_sleep")
  /\ UNCHANGED <<appVars, sel, init_tasks, trace, topoVars, esmVars, apsVars,
                 peVars, rfu_cache, emVars, logVars, distVars, cmabVars>>

\* hub.sleep(10) returns; if not self.initialization_done: initialize
loop_wake(l) ==
  /\ Quiescent
  /\ pc[l] = "boot_sleep"
  /\ elapsed' = time_passes(boot_sleep_seconds)
  /\ recent_events' = aged(boot_sleep_seconds)
  /\ UNCHANGED events_deque
  /\ goto(l, IF initialization_done THEN "loop_head" ELSE "init_start")
  /\ UNCHANGED <<probe_interval, stability, nmeas, eig, event_triggers>>
  /\ UNCHANGED <<appVars, sel, init_tasks, trace, topoVars, apsVars, peVars,
                 rfu_cache, emVars, distVars, cmabVars>>

\* _perform_original_initialization up to the first batch:
\* uq.get_task_pool_with_eig() computes every task's eig and returns the
\* pool sorted by it; raised = TRUE: the call raised
init_start(l, raised) ==
  /\ pc[l] = "init_start"
  /\ IF raised
     THEN /\ goto(l, "loop_head")
          /\ UNCHANGED <<eig, init_tasks>>
     ELSE /\ eig' = [k \in Keys |-> IF k \in Range(task_pool) THEN calculate_eig(k)
                                    ELSE eig[k]]
          /\ init_tasks' = [init_tasks EXCEPT ![l] =
                 sort_desc([i \in 1..Len(task_pool) |->
                              [task |-> task_pool[i], priority |-> eig'[task_pool[i]]]])]
          /\ goto(l, IF Len(task_pool) = 0 THEN "loop_head" ELSE "init_batch")
  /\ UNCHANGED <<probe_interval, stability, elapsed, nmeas, event_triggers>>
  /\ UNCHANGED <<appVars, sel, trace, topoVars, apsVars, peVars,
                 rfu_cache, emVars, logVars, distVars, cmabVars>>

\* one batch of the initialization: rfu.cache_states_before_probe, then
\* pe.execute_batch up to its wait for the workers
init_batch(l) ==
  /\ pc[l] = "init_batch"
  /\ LET batch == SubSeq(init_tasks[l], 1, Min(top_k, Len(init_tasks[l])))
     IN /\ rfu_cache' = cache_states_before_probe({batch[i].task : i \in 1..Len(batch)})
        /\ IF datapath = 0
           THEN /\ goto(l, "init_sleep")
                /\ drop(l)
                /\ UNCHANGED <<probe_results, workers>>
           ELSE /\ probe_results' = EmptyBag
                /\ sel' = [sel EXCEPT ![l] = batch]
                /\ workers' = workers \cup submitted(l, batch)
                /\ goto(l, "init_pe_wait")
  /\ UNCHANGED <<datapath, timeouts, pe_stats>>
  /\ UNCHANGED <<appVars, init_tasks, trace, topoVars, esmVars, apsVars, emVars, logVars, distVars,
                 cmabVars>>

\* the workers of the batch are done: rfu.process_results(results)
init_pe_done(l) ==
  /\ Quiescent
  /\ pc[l] = "init_pe_wait"
  /\ \A w \in workers : w.owner # l
  /\ IF probe_results # EmptyBag
     THEN process_results(probe_results)
     ELSE UNCHANGED <<esmVars, distVars>>
  /\ pe_stats' = batch_counted(sel[l])
  /\ goto(l, "init_sleep")
  /\ drop(l)
  /\ UNCHANGED <<datapath, probe_results, workers, timeouts>>
  /\ UNCHANGED <<appVars, init_tasks, trace, topoVars, apsVars, rfu_cache, emVars, logVars,
                 cmabVars>>

\* as_completed(futures, timeout=30) raises TimeoutError, which ends the
\* initialization in its except clause
init_pe_timeout(l) ==
  /\ Quiescent
  /\ pc[l] = "init_pe_wait"
  /\ may_time_out(l)
  /\ timeouts < MaxTimeouts
  /\ timeouts' = timeouts + 1
  /\ workers' = abandon(l)
  /\ goto(l, "loop_head")
  /\ drop(l)
  /\ init_tasks' = [init_tasks EXCEPT ![l] = <<>>]
  /\ UNCHANGED <<datapath, probe_results, pe_stats>>
  /\ UNCHANGED <<appVars, trace, topoVars, esmVars, apsVars,
                 rfu_cache, emVars, logVars, distVars, cmabVars>>

\* hub.sleep(1) returns: next batch, or initialization_done = True
init_next(l) ==
  /\ Quiescent
  /\ pc[l] = "init_sleep"
  /\ elapsed' = time_passes(init_sleep_seconds)
  /\ recent_events' = aged(init_sleep_seconds)
  /\ UNCHANGED events_deque
  /\ LET rest == SubSeq(init_tasks[l], Min(top_k, Len(init_tasks[l])) + 1,
                        Len(init_tasks[l]))
     IN /\ init_tasks' = [init_tasks EXCEPT ![l] = rest]
        /\ IF rest = <<>>
           THEN /\ initialization_done' = TRUE
                /\ goto(l, "loop_head")
           ELSE /\ initialization_done' = initialization_done
                /\ goto(l, "init_batch")
  /\ UNCHANGED <<switch_events, pending_starts, probe_thread, iads_monitoring_active,
                 total_rounds, stop_called, iads_datapaths>>
  /\ UNCHANGED <<probe_interval, stability, nmeas, eig, event_triggers>>
  /\ UNCHANGED <<sel, trace, topoVars, apsVars, peVars,
                 rfu_cache, emVars, distVars, cmabVars>>

\* while self.iads_monitoring_active: ... ; a round begins with
\* self.stats['total_rounds'] += 1
loop_head(l) ==
  /\ pc[l] = "loop_head"
  /\ IF iads_monitoring_active
     THEN /\ total_rounds < MaxRounds
          /\ total_rounds' = total_rounds + 1
          /\ trace' = [trace EXCEPT ![l] = <<>>]
          /\ goto(l, "round_em")
     ELSE /\ goto(l, "exited")
          /\ UNCHANGED <<total_rounds, trace>>
  /\ UNCHANGED <<switch_events, pending_starts, probe_thread, iads_monitoring_active,
                 initialization_done, stop_called, iads_datapaths>>
  /\ UNCHANGED <<sel, init_tasks, topoVars, esmVars, apsVars, peVars,
                 rfu_cache, emVars, logVars, distVars, cmabVars>>

\* the round without its except clause: the exception ends the greenlet
round_abort(l) ==
  /\ step(l, "EXC")
  /\ goto(l, "aborted")
  /\ drop(l)
  /\ UNCHANGED <<appVars, init_tasks, topoVars, esmVars, apsVars, peVars,
                 rfu_cache, emVars, logVars, distVars, cmabVars>>

\* a step of the round raises: the except clause of
\* _perform_original_probe_round logs it, the round returns and the loop
\* sleeps
round_raise(l) ==
  /\ step(l, "EXC")
  /\ goto(l, "round_sleep")
  /\ drop(l)
  /\ UNCHANGED <<appVars, init_tasks, topoVars, esmVars, apsVars, peVars,
                 rfu_cache, emVars, logVars, distVars, cmabVars>>

\* 1. self.em.check_and_detect_events()
round_em(l) ==
  /\ pc[l] = "round_em"
  /\ \/ /\ event_triggers' = detect_pass
        /\ em_events' = check_and_detect_events.events
        /\ add_events(Cardinality(check_and_detect_events.events))
        /\ measurement_history' = check_and_detect_events.history
        /\ step(l, "EM")
        /\ goto(l, "round_aps")
        /\ UNCHANGED <<probe_interval, stability, elapsed, nmeas, eig>>
        /\ UNCHANGED <<appVars, sel, init_tasks, topoVars, apsVars, peVars,
                       rfu_cache, distVars, cmabVars>>
     \/ round_raise(l)

\* ActiveProbingScheduler.select_tasks(k): CMAB draws a strategy (Thompson
\* sampling: any arm may win), CTLC sweeps the intervals, PRIO ranks the pool
select_tasks(k, strategy) ==
  [tasks |-> select_top_k(task_pool, strategy, swept_intervals, k),
   strategy |-> strategy,
   interval_adjustments |-> batch_adjust]

\* 2. selection_result = self.aps.select_tasks(); return when it is empty
round_aps(l) ==
  /\ pc[l] = "round_aps"
  /\ \/ round_raise(l)
     \/ \E strategy \in CMAB_STRATEGIES :
          LET r == select_tasks(top_k, strategy)
          IN /\ selected_strategy' = strategy
             /\ probe_interval' = swept_intervals
             /\ sel' = [sel EXCEPT ![l] = r.tasks]
             /\ step(l, "APS")
             /\ goto(l, IF r.tasks = <<>> THEN "round_sleep" ELSE "round_snap")
             /\ UNCHANGED <<stability, elapsed, nmeas, eig, event_triggers>>
             /\ UNCHANGED <<appVars, init_tasks, topoVars, api_result, api_calls,
                            peVars, rfu_cache, emVars, logVars, distVars, cmabVars>>

\* the round without its step 3
round_snapshot_skipped(l) ==
  /\ pc[l] = "round_snap"
  /\ goto(l, "round_pe")
  /\ UNCHANGED <<appVars, sel, init_tasks, trace, topoVars, esmVars, apsVars, peVars,
                 rfu_cache, emVars, logVars, distVars, cmabVars>>

\* 3. self.rfu.cache_states_before_probe(selected_tasks)
round_snapshot(l) ==
  /\ pc[l] = "round_snap"
  /\ \/ /\ rfu_cache' = cache_states_before_probe({sel[l][i].task : i \in 1..Len(sel[l])})
        /\ step(l, "SNAP")
        /\ goto(l, "round_pe")
        /\ UNCHANGED <<appVars, sel, init_tasks, topoVars, esmVars, apsVars, peVars,
                       emVars, logVars, distVars, cmabVars>>
     \/ round_raise(l)

\* 4. self.pe.execute_batch(selected_tasks), up to its wait for the workers;
\* without a datapath it returns [] and the round ends
round_pe(l) ==
  /\ pc[l] = "round_pe"
  /\ step(l, "PE")
  /\ IF datapath = 0
     THEN /\ goto(l, "round_sleep")
          /\ drop(l)
          /\ UNCHANGED <<probe_results, workers>>
     ELSE /\ probe_results' = EmptyBag
          /\ workers' = workers \cup submitted(l, sel[l])
          /\ goto(l, "round_pe_wait")
          /\ UNCHANGED sel
  /\ UNCHANGED <<datapath, timeouts, pe_stats>>
  /\ UNCHANGED <<appVars, init_tasks, topoVars, esmVars, apsVars,
                 rfu_cache, emVars, logVars, distVars, cmabVars>>

\* the workers of the batch are done and execute_batch returns
\* self.probe_results; if probe_results: process them
round_pe_done(l) ==
  /\ Quiescent
  /\ pc[l] = "round_pe_wait"
  /\ \A w \in workers : w.owner # l
  /\ pe_stats' = batch_counted(sel[l])
  /\ goto(l, IF probe_results # EmptyBag THEN "round_rfu" ELSE "round_sleep")
  /\ drop(l)
  /\ UNCHANGED <<datapath, probe_results, workers, timeouts>>
  /\ UNCHANGED <<appVars, init_tasks, trace, topoVars, esmVars, apsVars,
                 rfu_cache, emVars, logVars, distVars, cmabVars>>

\* as_completed(futures, timeout=30) raises TimeoutError out of
\* execute_batch; the round's except clause catches it
round_pe_timeout(l) ==
  /\ Quiescent
  /\ pc[l] = "round_pe_wait"
  /\ may_time_out(l)
  /\ timeouts < MaxTimeouts
  /\ timeouts' = timeouts + 1
  /\ workers' = abandon(l)
  /\ trace' = [trace EXCEPT ![l] = @ \o <<"TIMEOUT", "EXC">>]
  /\ goto(l, "round_sleep")
  /\ drop(l)
  /\ UNCHANGED <<datapath, probe_results, pe_stats>>
  /\ UNCHANGED <<appVars, init_tasks, topoVars, esmVars, apsVars,
                 rfu_cache, emVars, logVars, distVars, cmabVars>>

\* 5. self.rfu.process_results(probe_results): the ESM updates, then the
\* reward goes to aps.update_reward, which updates the bandit (the update of
\* the posterior itself is cmab_update, followed in SpecCMAB)
round_rfu(l) ==
  /\ pc[l] = "round_rfu"
  /\ \/ /\ process_results(probe_results)
        /\ trace' = [trace EXCEPT ![l] = @ \o process_results_steps]
        /\ goto(l, "round_sleep")
        /\ UNCHANGED <<appVars, sel, init_tasks, topoVars, apsVars, peVars, rfu_cache,
                       emVars, logVars, cmabVars>>
     \/ round_raise(l)

\* hub.sleep(interval) returns
round_next(l) ==
  /\ Quiescent
  /\ pc[l] = "round_sleep"
  /\ elapsed' = time_passes(probe_interval_default \div 1000)
  /\ recent_events' = aged(probe_interval_default \div 1000)
  /\ UNCHANGED events_deque
  /\ goto(l, "loop_head")
  /\ UNCHANGED <<probe_interval, stability, nmeas, eig, event_triggers>>
  /\ UNCHANGED <<appVars, sel, init_tasks, trace, topoVars, apsVars, peVars,
                 rfu_cache, emVars, distVars, cmabVars>>

\* ------------------------------------- the components called directly
\* The operations of ESM, UQ, EM and APS as a caller other than the probe
\* loop uses them (tests/test_modules.py calls them this way).
called == /\ api_calls < MaxApiCalls
          /\ api_calls' = api_calls + 1

\* esm.add_entity + em.add_core_entity + uq.update_entity_list for one link
topology_reports(link) ==
  /\ link_add_handler(link, TRUE)

\* a probe of task k succeeded and rfu.process_results stores the measurement
measurement_arrives(k) ==
  /\ called
  /\ get_state(k)
  /\ process_results(SetToBag({[task |-> k, success |-> TRUE]}))
  /\ UNCHANGED <<selected_strategy, api_result>>
  /\ UNCHANGED <<appVars, loopVars, topoVars, peVars, rfu_cache, emVars, logVars, cmabVars>>

\* d seconds go by
clock_advances(d) ==
  /\ called
  /\ entities # <<>>
  /\ elapsed' = time_passes(d)
  /\ recent_events' = aged(d)
  /\ UNCHANGED events_deque
  /\ UNCHANGED <<probe_interval, stability, nmeas, eig, event_triggers>>
  /\ UNCHANGED <<selected_strategy, api_result>>
  /\ UNCHANGED <<appVars, loopVars, topoVars, peVars,
                 rfu_cache, emVars, distVars, cmabVars>>

\* esm.set_probe_interval(entity_id, metric, T)
esm_set_probe_interval(k, T) ==
  /\ called
  /\ get_state(k)
  /\ probe_interval' = [probe_interval EXCEPT ![k] = set_probe_interval(T)]
  /\ UNCHANGED <<stability, elapsed, nmeas, eig, event_triggers>>
  /\ UNCHANGED <<selected_strategy, api_result>>
  /\ UNCHANGED <<appVars, loopVars, topoVars, peVars,
                 rfu_cache, emVars, logVars, distVars, cmabVars>>

\* uq.get_task_pool_with_eig(): every task's cached eig is recomputed
uq_get_task_pool_with_eig ==
  /\ called
  /\ task_pool # <<>>
  /\ eig' = [k \in Keys |-> IF k \in Range(task_pool) THEN calculate_eig(k) ELSE eig[k]]
  /\ UNCHANGED <<probe_interval, stability, elapsed, nmeas, event_triggers>>
  /\ UNCHANGED <<selected_strategy, api_result>>
  /\ UNCHANGED <<appVars, loopVars, topoVars, peVars,
                 rfu_cache, emVars, logVars, distVars, cmabVars>>

\* em.check_and_detect_events()
em_check_and_detect_events ==
  /\ called
  /\ entities # <<>>
  /\ event_triggers' = detect_pass
  /\ em_events' = check_and_detect_events.events
  /\ add_events(Cardinality(check_and_detect_events.events))
  /\ measurement_history' = check_and_detect_events.history
  /\ UNCHANGED <<probe_interval, stability, elapsed, nmeas, eig>>
  /\ UNCHANGED <<selected_strategy, api_result>>
  /\ UNCHANGED <<appVars, loopVars, topoVars, peVars, rfu_cache, distVars, cmabVars>>

\* an external caller prunes entity e from ESM; UQ's pool keeps its tasks
external_prune(e) ==
  /\ called
  /\ e \in Range(entities)
  /\ LET Other(x) == x # e
     IN entities' = SelectSeq(entities, Other)
  /\ states' = {k \in states : k[1] # e}
  /\ UNCHANGED <<topo_links, core_entities, task_pool>>
  /\ UNCHANGED <<selected_strategy, api_result>>
  /\ UNCHANGED <<appVars, loopVars, esmVars, peVars, rfu_cache, emVars, logVars, distVars, cmabVars>>

\* aps.select_tasks(k); the record is what the call returned, with the k, the
\* pool and the state table it was called with
aps_select_tasks(k, strategy) ==
  /\ called
  /\ api_result' = [k |-> k, pool |-> task_pool, states |-> Range(StateKeys),
                     result |-> select_tasks(k, strategy)]
  /\ selected_strategy' = strategy
  /\ probe_interval' = swept_intervals
  /\ UNCHANGED <<stability, elapsed, nmeas, eig, event_triggers>>
  /\ UNCHANGED <<appVars, loopVars, topoVars, peVars,
                 rfu_cache, emVars, logVars, distVars, cmabVars>>

\* ------------------------------------------------ CMAB (modules/aps.py)
\* The bandit keeps, per arm, the mean mu as a vector of fractions with one
\* denominator and the precision Sigma_inv as an integer matrix; Sigma is its
\* inverse.  Context components are whole numbers and rewards thousandths.
RECURSIVE Gcd(_, _)
Gcd(a, b) == IF b = 0 THEN a ELSE Gcd(b, a % b)
Abs(x) == IF x < 0 THEN -x ELSE x
Dot(u, v) == SeqSum([i \in 1..Len(u) |-> u[i] * v[i]])
\* np.dot(c, c.T) of the column vector c
Outer(c) == [i \in 1..Len(c) |-> [j \in 1..Len(c) |-> c[i] * c[j]]]
MatAdd(A, B) == [i \in 1..Len(A) |-> [j \in 1..Len(A) |-> A[i][j] + B[i][j]]]
MatVec(A, v) == [i \in 1..Len(A) |-> Dot(A[i], v)]
\* A without row r and column c
Minor(A, r, c) ==
  [i \in 1..(Len(A) - 1) |->
     [j \in 1..(Len(A) - 1) |->
        A[IF i < r THEN i ELSE i + 1][IF j < c THEN j ELSE j + 1]]]
Sign(i, j) == IF (i + j) % 2 = 0 THEN 1 ELSE -1
RECURSIVE Det(_)
Det(A) ==
  IF Len(A) = 1 THEN A[1][1]
  ELSE SeqSum([j \in 1..Len(A) |-> Sign(1, j) * A[1][j] * Det(Minor(A, 1, j))])
\* np.linalg.inv(A) is Adjugate(A) / Det(A)
Adjugate(A) ==
  [i \in 1..Len(A) |-> [j \in 1..Len(A) |-> Sign(i, j) * Det(Minor(A, j, i))]]
\* the fraction vector num / den in lowest terms
lowest_terms(num, den) ==
  LET RECURSIVE G(_, _)
      G(i, g) == IF i > Len(num) THEN g ELSE G(i + 1, Gcd(g, Abs(num[i])))
      g == G(1, den)
  IN [num |-> [i \in 1..Len(num) |-> num[i] \div g], den |-> den \div g]

\* the arm after update(c, r) when the precision in the mean's formula is P:
\* Sigma_inv grows by c c^T, Sigma is its inverse and
\* mu = Sigma . (P . mu_old + c * r)
updated_arm(mu_old, precision_old, P, c, r) ==
  LET precision_new == MatAdd(precision_old, Outer(c))
      weighted == MatVec(P, mu_old.num)
      rhs == [i \in 1..Len(c) |-> 1000 * weighted[i] + mu_old.den * r * c[i]]
  IN [mu |-> lowest_terms(MatVec(Adjugate(precision_new), rhs),
                          1000 * mu_old.den * Det(precision_new)),
      Sigma_inv |-> precision_new]

\* update with every arm updated
cmab_update_all(c, r) ==
  IF selected_strategy = "none" THEN [mu |-> cmab_mu, Sigma_inv |-> Sigma_inv]
  ELSE LET arm(a) == updated_arm(cmab_mu[a], Sigma_inv[a],
                                 MatAdd(Sigma_inv[a], Outer(c)), c, r)
       IN [mu |-> [a \in CMAB_STRATEGIES |-> arm(a).mu],
           Sigma_inv |-> [a \in CMAB_STRATEGIES |-> arm(a).Sigma_inv]]

\* update with the mean computed from the precision the arm had before:
\* mu = Sigma_new . (Sigma_old^(-1) . mu_old + c * r)
cmab_update_prior_precision(c, r) ==
  IF selected_strategy = "none" THEN [mu |-> cmab_mu, Sigma_inv |-> Sigma_inv]
  ELSE LET a == selected_strategy
           arm == updated_arm(cmab_mu[a], Sigma_inv[a], Sigma_inv[a], c, r)
       IN [mu |-> [cmab_mu EXCEPT ![a] = arm.mu],
           Sigma_inv |-> [Sigma_inv EXCEPT ![a] = arm.Sigma_inv]]

\* CMAB.update(context, reward): nothing without a selected strategy; the
\* selected arm's Sigma_inv is replaced first, and the mean is computed from
\* the replaced Sigma_inv
cmab_update(c, r) ==
  IF selected_strategy = "none" THEN [mu |-> cmab_mu, Sigma_inv |-> Sigma_inv]
  ELSE LET a == selected_strategy
           arm == updated_arm(cmab_mu[a], Sigma_inv[a],
                              MatAdd(Sigma_inv[a], Outer(c)), c, r)
       IN [mu |-> [cmab_mu EXCEPT ![a] = arm.mu],
           Sigma_inv |-> [Sigma_inv EXCEPT ![a] = arm.Sigma_inv]]

\* update_reward(reward): context = self.esm.get_context_vector(), the
\* context of the states as they are now
context_for_update == esm_context

\* the first two steps of select_tasks: the context vector is read and
\* select_strategy(context) draws an arm and records the context with it.
\* Any arm may have the highest sampled score; with a zero context every
\* score is 0 and max returns the first strategy.
cmab_select_strategy(strategy) ==
  /\ Len(cmab_history) < MaxSelections
  /\ (\A i \in 1..n_features : esm_context[i] = 0) => strategy = "focus_uncertainty"
  /\ selected_strategy' = strategy
  /\ cmab_history' = Append(cmab_history, [context |-> esm_context, strategy |-> strategy])
  /\ UNCHANGED <<cmab_mu, Sigma_inv, esm_context, update_calls>>
  /\ UNCHANGED <<api_result, api_calls>>
  /\ UNCHANGED <<appVars, loopVars, topoVars, esmVars, peVars, rfu_cache, emVars, logVars, distVars>>

\* the states of ESM change (a probe result is fused, time passes) and with
\* them the context vector get_context_vector returns
esm_context_moves(c) ==
  /\ c # esm_context
  /\ esm_context' = c
  /\ UNCHANGED <<cmab_mu, Sigma_inv, cmab_history, update_calls>>
  /\ UNCHANGED <<appVars, loopVars, topoVars, esmVars, apsVars, peVars, rfu_cache, emVars, logVars,
                 distVars>>

\* aps.update_reward(r)
aps_update_reward(r) ==
  /\ update_calls < MaxUpdates
  /\ update_calls' = update_calls + 1
  /\ cmab_mu' = cmab_update(context_for_update, r).mu
  /\ Sigma_inv' = cmab_update(context_for_update, r).Sigma_inv
  /\ UNCHANGED <<cmab_history, esm_context>>
  /\ UNCHANGED <<appVars, loopVars, topoVars, esmVars, apsVars, peVars, rfu_cache, emVars, logVars>>

\* the end of rfu.process_results: the reward r it computed is handed to
\* aps.update_reward
reward_handed(r) ==
  /\ reward' = r
  /\ aps_update_reward(r)
  /\ UNCHANGED <<beta_params, gauss_mu>>

\* ----------------------------------- the event manager called directly
em_called == /\ api_calls < MaxEmCalls
             /\ api_calls' = api_calls + 1

\* esm.add_entity(entity_id) and the task UQ keeps for it, without
\* em.add_core_entity: the entity is not a core entity
esm_add_entity(link) ==
  /\ link \notin Range(entities)
  /\ esm_add_entities(<<link>>)
  /\ task_pool' = update_entity_list(task_pool, entities', 1)
  /\ UNCHANGED <<topo_links, core_entities>>
  /\ UNCHANGED <<eig, event_triggers, reward>>
  /\ UNCHANGED <<appVars, loopVars, apsVars, peVars, rfu_cache, emVars, logVars, cmabVars>>

\* state.distribution.alpha = a; state.distribution.beta = b
force_beta(k, ab) ==
  /\ em_called
  /\ get_state(k)
  /\ beta_params[k] # ab
  /\ beta_params' = [beta_params EXCEPT ![k] = ab]
  /\ UNCHANGED <<gauss_mu, reward>>
  /\ UNCHANGED <<selected_strategy, api_result>>
  /\ UNCHANGED <<appVars, loopVars, topoVars, esmVars, peVars, rfu_cache, emVars, logVars, cmabVars>>

\* a measurement x of task k is fused: rfu.process_results of one result
value_measured(k, x) ==
  /\ em_called
  /\ get_state(k)
  /\ process_results(SetToBag({[task |-> k, success |-> TRUE, value |-> x]}))
  /\ UNCHANGED <<selected_strategy, api_result>>
  /\ UNCHANGED <<appVars, loopVars, topoVars, peVars, rfu_cache, emVars, logVars, cmabVars>>

\* em.check_and_detect_events()
em_detection_pass ==
  /\ em_called
  /\ entities # <<>>
  /\ event_triggers' = detect_pass
  /\ em_events' = check_and_detect_events.events
  /\ add_events(Cardinality(check_and_detect_events.events))
  /\ measurement_history' = check_and_detect_events.history
  /\ UNCHANGED <<probe_interval, stability, elapsed, nmeas, eig>>
  /\ UNCHANGED <<selected_strategy, api_result>>
  /\ UNCHANGED <<appVars, loopVars, topoVars, peVars, rfu_cache, distVars, cmabVars>>

\* ------------------------------------------- the rtt of L1 fed by a caller
\* The values fed to L1.rtt: 10 ms until the history has the ten points the
\* measurement rule needs, then 10 ms or 40 ms.
feed_values(n) ==
  IF n < history_min THEN {rtt_initial_mu} ELSE {rtt_initial_mu, rtt_spike_value}

\* the sample variance of the values fed so far: 0 while every value was the
\* prior mean (the posterior mean mu has not moved), and with a 40 ms value
\* among them far above max_stability
fed_stability(mu) == IF mu = rtt_initial_mu THEN 0 ELSE 2000

\* esm.update_distribution(L1, rtt, x), through rfu.process_results of one
\* result; the detection pass of the previous value has run
rtt_fed(x) ==
  LET k == <<L1, "rtt">>
  IN /\ get_state(k)
     /\ nmeas[k] < MaxFeeds
     /\ Len(measurement_history[k]) = nmeas[k]
     /\ process_results(SetToBag({[task |-> k, success |-> TRUE, value |-> x]}))
     /\ stability'[k] = fed_stability(gauss_mu'[k])
     /\ UNCHANGED <<selected_strategy, api_result, api_calls>>
     /\ UNCHANGED <<appVars, loopVars, topoVars, peVars, rfu_cache, emVars, logVars, cmabVars>>

\* em.check_and_detect_events() after a value was fed
pass_after_feed ==
  LET k == <<L1, "rtt">>
  IN /\ get_state(k)
     /\ Len(measurement_history[k]) < nmeas[k]
     /\ event_triggers' = detect_pass
     /\ em_events' = check_and_detect_events.events
     /\ add_events(Cardinality(check_and_detect_events.events))
     /\ measurement_history' = check_and_detect_events.history
     /\ UNCHANGED <<probe_interval, stability, elapsed, nmeas, eig>>
     /\ UNCHANGED <<selected_strategy, api_result, api_calls>>
     /\ UNCHANGED <<appVars, loopVars, topoVars, peVars, rfu_cache, distVars, cmabVars>>

\* ------------------------------------------- the fusion unit called directly
\* The caller makes the calls of a probe round in turn:
\* cache_states_before_probe(selected), pe.execute_batch(selected), which
\* returns one result for each selected task, and process_results(results).
rfu_called == /\ api_calls < MaxRfuCalls
              /\ api_calls' = api_calls + 1
snapshot_due == api_calls % 3 = 0
results_due == api_calls % 3 = 1
processing_due == api_calls % 3 = 2

\* the batches a caller selects: up to size tasks of the pool from position
\* first on
pool_slice(first, size) ==
  Range(SubSeq(task_pool, first, Min(first + size - 1, Len(task_pool))))

\* rfu.cache_states_before_probe(selected)
rfu_cache_states_before_probe(tasks) ==
  /\ rfu_called
  /\ snapshot_due
  /\ tasks # {}
  /\ rfu_cache' = cache_states_before_probe(tasks)
  /\ UNCHANGED <<selected_strategy, api_result>>
  /\ UNCHANGED <<appVars, loopVars, topoVars, esmVars, peVars, emVars, logVars, distVars, cmabVars>>

\* pe.execute_batch(selected) returns after a second of probing: a
\* ProbeResult for each selected task, those of ok with success = True
pe_returns(ok) ==
  /\ rfu_called
  /\ results_due
  /\ probe_results' = SetToBag({[task |-> c[1], success |-> c[1] \in ok] : c \in rfu_cache})
  /\ pe_stats' = [total_probes |-> pe_stats.total_probes + Cardinality(rfu_cache),
                  successful_probes |-> pe_stats.successful_probes
                                          + Cardinality({c \in rfu_cache : c[1] \in ok}),
                  failed_probes |-> pe_stats.failed_probes
                                      + Cardinality({c \in rfu_cache : c[1] \notin ok})]
  /\ elapsed' = time_passes(1)
  /\ recent_events' = aged(1)
  /\ UNCHANGED events_deque
  /\ UNCHANGED <<probe_interval, stability, nmeas, eig, event_triggers>>
  /\ UNCHANGED <<datapath, workers, timeouts>>
  /\ UNCHANGED <<selected_strategy, api_result>>
  /\ UNCHANGED <<appVars, loopVars, topoVars, rfu_cache, emVars, distVars, cmabVars>>

\* rfu.process_results(results)
rfu_process_results ==
  /\ rfu_called
  /\ processing_due
  /\ process_results(probe_results)
  /\ UNCHANGED <<selected_strategy, api_result>>
  /\ UNCHANGED <<appVars, loopVars, topoVars, peVars, rfu_cache, emVars, logVars, cmabVars>>

\* ------------------------------------------------------- specifications
\* Spec: the application with its probe loop.  The switches connect more
\* than the five seconds of the start timer apart, so a switch-features event
\* never finds a start pending.
Next ==
  \/ \E ok \in BOOLEAN : pending_starts = 0 /\ switch_features_handler(ok)
  \/ start_iads_system
  \/ \E d \in DpidSet, main \in BOOLEAN : state_change_handler(d, main)
  \/ \E ok \in BOOLEAN : switch_enter_handler(ok)
  \/ \E link \in LinkSet, ok \in BOOLEAN : link_add_handler(link, ok)
  \/ stop
  \/ \E w \in workers, ok \in BOOLEAN : worker_step(w, ok)
  \/ \E l \in LoopIds : loop_boot(l)
  \/ \E l \in LoopIds : loop_wake(l)
  \/ \E l \in LoopIds, raised \in BOOLEAN : init_start(l, raised)
  \/ \E l \in LoopIds : init_batch(l)
  \/ \E l \in LoopIds : init_pe_done(l)
  \/ \E l \in LoopIds : init_pe_timeout(l)
  \/ \E l \in LoopIds : init_next(l)
  \/ \E l \in LoopIds : loop_head(l)
  \/ \E l \in LoopIds : round_em(l)
  \/ \E l \in LoopIds : round_aps(l)
  \/ \E l \in LoopIds : round_snapshot(l)
  \/ \E l \in LoopIds : round_pe(l)
  \/ \E l \in LoopIds : round_pe_done(l)
  \/ \E l \in LoopIds : round_pe_timeout(l)
  \/ \E l \in LoopIds : round_rfu(l)
  \/ \E l \in LoopIds : round_next(l)

Spec == Init /\ [][Next]_vars

\* StartSpec: switch-features events at any time, before any link is
\* discovered (the pool stays empty, so no probe is sent).
StartNext ==
  \/ \E ok \in BOOLEAN : switch_features_handler(ok)
  \/ start_iads_system
  \/ stop
  \/ \E l \in LoopIds : loop_boot(l)
  \/ \E l \in LoopIds : loop_wake(l)
  \/ \E l \in LoopIds, raised \in BOOLEAN : init_start(l, raised)
  \/ \E l \in LoopIds : loop_head(l)
  \/ \E l \in LoopIds : round_em(l)
  \/ \E l \in LoopIds : round_aps(l)
  \/ \E l \in LoopIds : round_next(l)

StartSpec == Init /\ [][StartNext]_vars

\* SpecAPS: the scheduler and the components it reads, called directly.
APSNext ==
  \/ \E link \in PoolLinkSet : topology_reports(link)
  \/ \E k \in PoolLinkSet \X CalledMetrics : measurement_arrives(k)
  \/ \E d \in {init_sleep_seconds, boot_sleep_seconds} : clock_advances(d)
  \/ \E k \in PoolLinkSet \X CalledMetrics, T \in IntervalVals :
       esm_set_probe_interval(k, T)
  \/ uq_get_task_pool_with_eig
  \/ em_check_and_detect_events
  \/ \E e \in PoolLinkSet : external_prune(e)
  \/ \E k \in 0..MaxK, strategy \in CMAB_STRATEGIES : aps_select_tasks(k, strategy)

SpecAPS == Init /\ [][APSNext]_vars

\* SpecEM: the event manager over the two links of the bootstrap topology,
\* each a core entity or not, with the rtt of L1 measured and the liveness
\* of L2 written by the caller.
EMNext ==
  \/ \E link \in PoolLinkSet : topology_reports(link)
  \/ \E link \in PoolLinkSet : esm_add_entity(link)
  \/ \E ab \in BetaVals : force_beta(<<L2, "liveness">>, ab)
  \/ value_measured(<<L1, "rtt">>, rtt_initial_mu)
  \/ em_detection_pass

SpecEM == Init /\ [][EMNext]_vars

\* SpecS3: the rtt of L1 fed value by value with a detection pass after each
\* value; once the history has its ten points the scheduler is called on the
\* state the last pass left, the bandit choosing event_trigger.
history_ready ==
  /\ Len(measurement_history[<<L1, "rtt">>]) >= history_min
  /\ Len(measurement_history[<<L1, "rtt">>]) = nmeas[<<L1, "rtt">>]

S3Next ==
  \/ \E link \in PoolLinkSet : topology_reports(link)
  \/ \E x \in feed_values(nmeas[<<L1, "rtt">>]) : rtt_fed(x)
  \/ pass_after_feed
  \/ history_ready /\ clock_advances(init_sleep_seconds)
  \/ history_ready /\ uq_get_task_pool_with_eig
  \/ \E k \in {1, top_k} : history_ready /\ aps_select_tasks(k, "event_trigger")

SpecS3 == Init /\ [][S3Next]_vars

\* SpecSpike: the rtt of L1 fed 10 ms or 40 ms from the first value on, with
\* a detection pass after each value.
SpikeNext ==
  \/ entities = <<>> /\ topology_reports(L1)
  \/ \E x \in {rtt_initial_mu, rtt_spike_value} : rtt_fed(x)
  \/ pass_after_feed

SpecSpike == Init /\ [][SpikeNext]_vars

\* SpecCMAB: the bandit with selections, updates and a context that moves
\* between them.
CMABNext ==
  \/ \E strategy \in CMAB_STRATEGIES : cmab_select_strategy(strategy)
  \/ \E c \in ContextVals : esm_context_moves(c)
  \/ \E r \in RewardVals : reward_handed(r)

SpecCMAB == Init /\ [][CMABNext]_vars

\* SpecRFU: snapshots and batches of results handed to the fusion unit, a
\* batch holding one task or up to top_k tasks.
RFUNext ==
  \/ \E link \in PoolLinkSet : topology_reports(link)
  \/ \E first \in 1..Len(task_pool), size \in {1, top_k} :
       rfu_cache_states_before_probe(pool_slice(first, size))
  \/ \E ok \in SUBSET {c[1] : c \in rfu_cache} : pe_returns(ok)
  \/ rfu_process_results

SpecRFU == Init /\ [][RFUNext]_vars

\* ------------------------------------------- the tuner called directly
\* intervals a state may hold (1 s to 60 s) and stabilities it may report
\* (0 to 20.0, the target 1.0 among them)
IntervalInputs == {1000, 1001, 9000, 10000, 30000, 59999, 60000}
StabilityInputs == {0, 50, 99, 100, 101, 200, 1100, 2000}

\* ctlc.adjust_probe_interval(current_interval, stability): the record is
\* the call and what it returned
ctlc_adjust_probe_interval(current_interval, stab) ==
  /\ api_calls < MaxCtlcCalls
  /\ api_calls' = api_calls + 1
  /\ api_result' = [current_interval |-> current_interval, stability |-> stab,
                     new_interval |-> adjust_probe_interval(current_interval, stab)]
  /\ UNCHANGED selected_strategy
  /\ UNCHANGED <<appVars, loopVars, topoVars, esmVars, peVars, rfu_cache, emVars, logVars,
                 distVars, cmabVars>>

CTLCNext ==
  \E current_interval \in IntervalInputs, stab \in StabilityInputs :
    ctlc_adjust_probe_interval(current_interval, stab)

SpecCTLC == Init /\ [][CTLCNext]_vars

\* ------------------------------------- the event store over many passes
\* em.check_and_detect_events() by a caller that keeps calling
em_pass_repeated ==
  /\ entities # <<>>
  /\ (IF events_deque = <<>> THEN 0 ELSE events_deque[Len(events_deque)]) < MaxStoredEvents
  /\ event_triggers' = detect_pass
  /\ em_events' = check_and_detect_events.events
  /\ add_events(Cardinality(check_and_detect_events.events))
  /\ measurement_history' = check_and_detect_events.history
  /\ UNCHANGED <<probe_interval, stability, elapsed, nmeas, eig>>
  /\ UNCHANGED <<selected_strategy, api_result, api_calls>>
  /\ UNCHANGED <<appVars, loopVars, topoVars, peVars, rfu_cache, distVars, cmabVars>>

\* d seconds go by between two calls
em_clock(d) ==
  /\ entities # <<>>
  /\ Len(events_deque) <= MaxClockedEvents
  /\ elapsed' = time_passes(d)
  /\ recent_events' = aged(d)
  /\ UNCHANGED events_deque
  /\ UNCHANGED <<probe_interval, stability, nmeas, eig, event_triggers>>
  /\ UNCHANGED <<selected_strategy, api_result, api_calls>>
  /\ UNCHANGED <<appVars, loopVars, topoVars, peVars, rfu_cache, emVars, distVars, cmabVars>>

\* SpecWindow: one link whose liveness a caller has lowered to 0.1, and
\* detection passes one after another, each storing a liveness_low event;
\* 200 seconds may go by between the first passes.
WindowNext ==
  \/ entities = <<>> /\ topology_reports(L2)
  \/ api_calls = 0 /\ force_beta(<<L2, "liveness">>, <<1, 9>>)
  \/ api_calls > 0 /\ em_pass_repeated
  \/ em_clock(200)

SpecWindow == Init /\ [][WindowNext]_vars

\* FairSpec: the probe loop of a network whose switch connects and whose
\* links are discovered while the loop sleeps its first ten seconds ("wait
\* for topology discovery"), with the
\* scheduling the hub and the thread pool give: a greenlet that can run is
\* run, a sleep or a wait returns, and a worker thread gets on with its tasks.
Booting == \A l \in LoopIds : pc[l] \in {"none", "spawned", "boot_sleep"}
LoopStep ==
  \E l \in LoopIds :
    \/ loop_boot(l) \/ loop_wake(l) \/ \E raised \in BOOLEAN : init_start(l, raised)
    \/ init_batch(l) \/ init_pe_done(l) \/ init_pe_timeout(l) \/ init_next(l)
    \/ loop_head(l) \/ round_em(l) \/ round_aps(l) \/ round_snapshot(l)
    \/ round_pe(l) \/ round_pe_done(l) \/ round_pe_timeout(l) \/ round_rfu(l)
    \/ round_next(l)
WorkerStep == \E w \in workers, ok \in BOOLEAN : worker_step(w, ok)

FairNext ==
  \/ probe_thread = 0 /\ pending_starts = 0 /\ switch_features_handler(TRUE)
  \/ start_iads_system
  \/ \E d \in DpidSet : Booting /\ state_change_handler(d, TRUE)
  \/ \E link \in LinkSet : Booting /\ link_add_handler(link, TRUE)
  \/ stop
  \/ WorkerStep
  \/ LoopStep

\* The fairness conditions are weak fairness of LoopStep and of WorkerStep,
\* written on the variable each of them moves.  A step of the probe loop is
\* a change of its pc to a position other than "killed", and it can be taken
\* exactly when LoopCanStep holds; a step of a worker takes the first task
\* off the worker's todo, and some worker can take one whenever there is a
\* worker (LoopStepsMoveThePc and WorkerStepsMoveTheWorkers below).
LoopPCs ==
  {"spawned", "boot_sleep", "init_start", "init_batch", "init_pe_wait", "init_sleep",
   "loop_head", "round_em", "round_aps", "round_snap", "round_pe", "round_pe_wait",
   "round_rfu", "round_sleep", "exited"}

\* the loop can take its next step: a sleep returns when the hub is free, the
\* wait for the workers returns when they are done or the 30 s are over, the
\* while loop begins another round, and everything between two suspensions
\* runs at once
LoopCanStep(l) ==
  CASE pc[l] \in {"spawned", "boot_sleep", "init_sleep", "round_sleep"} -> Quiescent
    [] pc[l] \in {"init_start", "init_batch", "round_em", "round_aps", "round_snap",
                  "round_pe", "round_rfu"} -> TRUE
    [] pc[l] = "loop_head" -> (iads_monitoring_active => total_rounds < MaxRounds)
    [] pc[l] \in {"init_pe_wait", "round_pe_wait"} ->
         /\ Quiescent
         /\ \/ \A w \in workers : w.owner # l
            \/ may_time_out(l) /\ timeouts < MaxTimeouts
    [] OTHER -> FALSE

LoopMoves ==
  \E l \in LoopIds :
    LoopCanStep(l) /\ \E p \in LoopPCs \ {pc[l]} : pc' = [pc EXCEPT ![l] = p]

WorkerMoves ==
  \E w \in workers :
    workers' = IF Len(w.todo) = 1 THEN workers \ {w}
               ELSE (workers \ {w}) \cup {[w EXCEPT !.todo = Tail(w.todo), !.pending = <<>>]}

FairSpec == Init /\ [][FairNext]_vars /\ WF_pc(LoopMoves) /\ WF_workers(WorkerMoves)

\* in every behaviour of FairNext the steps of the loop are the steps that
\* move its pc, and a step of the loop is enabled exactly when LoopCanStep
\* holds: WF_pc(LoopMoves) is WF_vars(LoopStep)
LoopStepsMoveThePc ==
  [][/\ (\E l \in LoopIds : LoopCanStep(l)) <=> ENABLED <<LoopStep>>_vars
     /\ LoopStep <=> <<LoopMoves>>_pc]_vars

\* the steps of the workers are the steps that take a task off a worker, and
\* one is enabled exactly when there is a worker: WF_workers(WorkerMoves) is
\* WF_vars(WorkerStep)
WorkerStepsMoveTheWorkers ==
  [][/\ workers # {} <=> ENABLED <<WorkerStep>>_vars
     /\ WorkerStep <=> <<WorkerMoves>>_workers]_vars

\* SpecPE: pe.execute_batch called by one caller, batch after batch, on the
\* tasks of one link; the workers run as threads, and the reads and writes
\* of their counters interleave.
PeBatches ==
  {[i \in 1..Len(ms) |-> [task |-> <<L1, ms[i]>>, priority |-> 0]] :
     ms \in {<<"plr", "bandwidth">>, <<"liveness", "rtt", "plr", "bandwidth">>}}

\* the caller hands a batch to execute_batch
pe_called(l, batch) ==
  /\ api_calls < MaxPeCalls
  /\ pc[l] \in {"none", "round_rfu", "round_sleep"}
  /\ api_calls' = api_calls + 1
  /\ sel' = [sel EXCEPT ![l] = batch]
  /\ goto(l, "round_pe")
  /\ UNCHANGED <<init_tasks, trace, selected_strategy, api_result>>
  /\ UNCHANGED <<appVars, topoVars, esmVars, peVars, rfu_cache, emVars, logVars,
                 distVars, cmabVars>>

PENext ==
  \/ datapath = 0 /\ state_change_handler(1, TRUE)
  \/ \E batch \in PeBatches : pe_called(1, batch)
  \/ round_pe(1)
  \/ round_pe_done(1)
  \/ round_pe_timeout(1)
  \/ \E w \in workers, ok \in BOOLEAN : worker_reads(w, ok)
  \/ \E w \in workers, ok \in BOOLEAN : worker_step(w, ok)

SpecPE == Init /\ [][PENext]_vars

\* ---------------------------------------------------------------- claims
\* C1: within a round the steps run in the order EM, APS.select_tasks,
\* RFU.cache_states_before_probe, PE.execute_batch, RFU.process_results, CMAB
\* update, and a step starts only when the one before it has returned: the
\* steps a round has taken are a prefix of that order, as long as the
\* position of the loop says, and nothing follows the end of a round.
C1_RoundOrder ==
  \A l \in LoopIds :
    LET IsStep(x) == x \notin {"EXC", "TIMEOUT", "KILLED"}
        steps == SelectSeq(trace[l], IsStep)
        order == <<"EM", "APS", "SNAP", "PE", "RFU", "CMAB">>
    IN /\ Len(steps) <= Len(order)
       /\ \A i \in 1..Len(steps) : steps[i] = order[i]
       /\ \A i \in 1..Len(trace[l]) :
            ~IsStep(trace[l][i]) => \A j \in i..Len(trace[l]) : ~IsStep(trace[l][j])
       /\ pc[l] = "round_em" => Len(trace[l]) = 0
       /\ pc[l] = "round_aps" => trace[l] = SubSeq(order, 1, 1)
       /\ pc[l] = "round_snap" => trace[l] = SubSeq(order, 1, 2)
       /\ pc[l] = "round_pe" => trace[l] = SubSeq(order, 1, 3)
       /\ pc[l] \in {"round_pe_wait", "round_rfu"} => trace[l] = SubSeq(order, 1, 4)

\* C1 witness: a round that has run all six steps
C1_FullRound ==
  \E l \in LoopIds :
    /\ pc[l] = "round_sleep"
    /\ trace[l] = <<"EM", "APS", "SNAP", "PE", "RFU", "CMAB">>

\* C2: whatever the number and timing of the switch-features events, at most
\* one scheduler loop is running and at most one round is in progress.
C2_OneLoop ==
  /\ Cardinality({l \in LoopIds : Running(l)}) <= 1
  /\ Cardinality({l \in LoopIds : pc[l] \in {"round_em", "round_aps", "round_snap",
                                              "round_pe", "round_pe_wait", "round_rfu"}}) <= 1

\* C3: when the wait for the probe workers runs into its 30 s timeout, the
\* round is closed with RFU.process_results run on the batch, the tasks
\* without a result counted as failures.
C3_OverrunReachesRFU ==
  \A l \in LoopIds :
    (pc[l] = "round_sleep" /\ \E i \in 1..Len(trace[l]) : trace[l][i] = "TIMEOUT")
      => \E i \in 1..Len(trace[l]) : trace[l][i] = "RFU"

\* C4: no exception ends the probe loop: a loop ends only by stop(), and a
\* running loop whose round or initialization raised starts another round
\* unless monitoring is switched off.
C4_LoopSurvives ==
  /\ [](\A l \in LoopIds : (pc[l] # "none" /\ ~Running(l)) => stop_called)
  /\ \A l \in LoopIds : \A n \in 0..(MaxRounds - 1) :
        (Running(l) /\ total_rounds = n) ~> (total_rounds > n \/ ~iads_monitoring_active)

\* C4 witness: a second round begins after the wait for the workers raised
\* TimeoutError
C4_RoundAfterRaise ==
  \E l \in LoopIds : pc[l] = "round_em" /\ total_rounds = MaxRounds /\ timeouts > 0

\* C5: a round that stop() finds waiting for its probe workers still gets its
\* RFU.process_results once the workers have delivered results.
C5_StopFinishesRFU ==
  \A l \in LoopIds :
    (/\ \E i \in 1..Len(trace[l]) : trace[l][i] = "KILLED"
     /\ workers = {}
     /\ probe_results # EmptyBag)
      => \E i \in 1..Len(trace[l]) : trace[l][i] = "RFU"

\* C6: after stop() no step changes the ESM entities (and with them the state
\* table), EM's core-entity set or UQ's task pool.
C6_StoppedTopologyFrame ==
  [][stop_called => /\ entities' = entities
                    /\ core_entities' = core_entities
                    /\ task_pool' = task_pool]_vars

\* C7 (P4): select_tasks(k) returns at most k tasks, each a task of UQ's pool,
\* in order of non-increasing priority.
C7_P4 ==
  api_result # <<>> =>
    LET tasks == api_result.result.tasks
    IN /\ Len(tasks) <= api_result.k
       /\ \A i \in 1..Len(tasks) : tasks[i].task \in Range(api_result.pool)
       /\ \A i \in 1..(Len(tasks) - 1) : tasks[i].priority >= tasks[i + 1].priority

\* C7 witness: k = 5 of eight pool tasks, of different priorities
C7_FiveOfEight ==
  /\ api_result # <<>>
  /\ api_result.k = top_k
  /\ Len(api_result.pool) = MaxPoolLinks * Len(METRICS)
  /\ Len(api_result.result.tasks) = top_k
  /\ api_result.result.tasks[1].priority > api_result.result.tasks[top_k].priority

\* C8: select_tasks(k) returns min(k, number of pool tasks that have an ESM
\* state) tasks.
C8_ExactCount ==
  api_result # <<>> =>
    Len(api_result.result.tasks) =
      Min(api_result.k,
          Cardinality({i \in 1..Len(api_result.pool) :
                         api_result.pool[i] \in api_result.states}))

\* C8 witness: k = 5 with eight tasks in the pool of which four have a state
C8_FourWithState ==
  /\ api_result # <<>>
  /\ api_result.k = top_k
  /\ Len(api_result.pool) = MaxPoolLinks * Len(METRICS)
  /\ \E i \in 1..Len(api_result.pool) : api_result.pool[i] \notin api_result.states
  /\ Len(api_result.result.tasks) = Len(METRICS)

\* C9: tasks of equal priority come in order of EIG, higher first, and tasks
\* of equal priority and EIG in lexicographic order of entity_id.
C9_TieBreak ==
  api_result # <<>> =>
    LET tasks == api_result.result.tasks
    IN \A i \in 1..Len(tasks) : \A j \in (i + 1)..Len(tasks) :
         tasks[i].priority = tasks[j].priority =>
           \/ tasks[i].components.eig > tasks[j].components.eig
           \/ /\ tasks[i].components.eig = tasks[j].components.eig
              /\ ~LexLess(tasks[j].task[1], tasks[i].task[1])

\* C10 (P3): every probe interval is within [probe_interval_min,
\* probe_interval_max] after every set_probe_interval and every sweep, and so
\* is every interval a sweep computes, whatever the stability.
C10_P3 ==
  /\ \A k \in Keys :
       probe_interval_min <= probe_interval[k] /\ probe_interval[k] <= probe_interval_max
  /\ api_result # <<>> =>
       \A a \in api_result.result.interval_adjustments :
         probe_interval_min <= a.new_interval /\ a.new_interval <= probe_interval_max

\* C10 witness: a sweep over a state whose stability makes the factor negative
C10_NegativeFactor ==
  /\ api_result # <<>>
  /\ \E a \in api_result.result.interval_adjustments :
       /\ raw_adjust(a.old_interval, a.stability) < 0
       /\ a.new_interval = probe_interval_min
       /\ probe_interval[a.key] = probe_interval_min

\* a step in which check_and_detect_events ran: the pass appends the current
\* mean of every rtt state to its history
EmPass == measurement_history' # measurement_history
\* the pairs on which the pass emitted an event, and their escalations
FiredPairs == {e.key : e \in em_events'}
EscalatedPairs ==
  {<<k[1], m>> : k \in {f \in FiredPairs : f[2] = "rtt" /\ f[1] \in core_entities},
                 m \in {"plr", "bandwidth"}}

\* C11: after a detection pass the trigger is 1.0 exactly for the pairs on
\* which an event fired in this pass and for the escalations of this pass; a
\* trigger of an earlier pass does not survive.
C11_TriggersCleared ==
  [][EmPass => event_triggers' = FiredPairs \cup EscalatedPairs]_vars

\* C11 witness: L2's liveness was written to Beta(9, 1) and a later pass, not
\* the first over L2, left no trigger on it
C11_StaleTriggerGone ==
  /\ Len(measurement_history[<<L2, "rtt">>]) >= 2
  /\ beta_params[<<L2, "liveness">>] = <<9, 1>>
  /\ <<L2, "liveness">> \notin event_triggers

\* C12: in a pass in which an event fires on (e, rtt), a core entity e ends
\* the pass with the triggers of (e, plr) and (e, bandwidth) raised, and an
\* entity outside the core set has those triggers only for events of their
\* own.
C12_Escalation ==
  [][EmPass =>
       \A e \in Range(entities) :
         <<e, "rtt">> \in FiredPairs =>
           \A m \in {"plr", "bandwidth"} :
             IF e \in core_entities
             THEN <<e, m>> \in event_triggers'
             ELSE <<e, m>> \in event_triggers' <=> <<e, m>> \in FiredPairs]_vars

\* C12 witness: a pass raised the plr trigger of core entity L1 for an rtt
\* event, plr having no event of its own
C12_CoreEscalated ==
  /\ L1 \in core_entities
  /\ \E e \in em_events : e.key = <<L1, "rtt">>
  /\ ~\E e \in em_events : e.key = <<L1, "plr">>
  /\ <<L1, "plr">> \in event_triggers
  /\ <<L1, "bandwidth">> \in event_triggers

\* C13: with L2.liveness at Beta(1, 9) a pass emits liveness_low of severity
\* 0.9 for (L2, liveness) and, L2 being a core entity, raises the triggers of
\* (L2, plr) and (L2, bandwidth).
C13_LivenessDown ==
  [][(EmPass /\ L2 \in Range(entities) /\ beta_params[<<L2, "liveness">>] = <<1, 9>>) =>
       /\ [key |-> <<L2, "liveness">>, event_type |-> "liveness_low", severity |-> 90]
            \in em_events'
       /\ L2 \in core_entities =>
            /\ <<L2, "plr">> \in event_triggers'
            /\ <<L2, "bandwidth">> \in event_triggers']_vars

\* C14: a pass emits liveness_low for a liveness state and raises its trigger
\* exactly when alpha / (alpha + beta) < 0.8, with severity
\* 1 - alpha / (alpha + beta).
C14_LivenessThreshold ==
  [][EmPass =>
       \A e \in Range(entities) :
         LET k == <<e, "liveness">>
             alpha == beta_params[k][1]
             beta == beta_params[k][2]
             low == {x \in em_events' : x.key = k /\ x.event_type = "liveness_low"}
         IN /\ low # {} <=> alpha * 10 < 8 * (alpha + beta)
            /\ k \in event_triggers' <=> alpha * 10 < 8 * (alpha + beta)
            /\ \A x \in low : x.severity = 100 - (100 * alpha) \div (alpha + beta)]_vars

\* C14 witness: a pass over L2 at Beta(8, 2), p_up exactly 0.8, raised nothing
\* for its liveness
C14_AtThreshold ==
  /\ beta_params[<<L2, "liveness">>] = <<8, 2>>
  /\ measurement_history[<<L2, "rtt">>] # <<>>
  /\ <<L2, "liveness">> \notin event_triggers
  /\ ~\E e \in em_events : e.key = <<L2, "liveness">>

\* the history of (L1, rtt) holds the mean after each of ten values 10 and
\* the value 40 has been fed
S3Fed ==
  LET k == <<L1, "rtt">>
  IN /\ nmeas[k] = history_min + 1
     /\ Len(measurement_history[k]) = history_min
     /\ \A i \in 1..history_min : measurement_history[k][i] = rtt_initial_mu
     /\ gauss_mu[k] > rtt_initial_mu

\* C15: the detection pass that follows the sequence of ten values 10 and one
\* value 40 fed to L1.rtt emits rtt_spike for (L1, rtt) with severity >= 0.6
\* and leaves the trigger of (L1, rtt) raised.
C15_SpikeDetected ==
  [][(S3Fed /\ EmPass) =>
       /\ \E e \in em_events' : /\ e.key = <<L1, "rtt">>
                                /\ e.event_type = "rtt_spike"
                                /\ e.severity >= 60
       /\ <<L1, "rtt">> \in event_triggers']_vars

\* C16: with the entities L1 and L2 added in this order, the trigger of (L1, rtt) raised and
\* the strategy event_trigger, select_tasks returns (L1, rtt) first.
C16_TriggeredFirst ==
  [][(/\ api_calls' = api_calls + 1
      /\ api_result' # <<>>
      /\ api_result'.result.strategy = "event_trigger"
      /\ api_result'.k >= 1
      /\ entities = <<L1, L2>>
      /\ <<L1, "rtt">> \in event_triggers) =>
       /\ api_result'.result.tasks # <<>>
       /\ api_result'.result.tasks[1].task = <<L1, "rtt">>]_vars

\* a step in which CMAB.update ran, and the arm of the most recent selection
CmabUpdate == update_calls' = update_calls + 1
last_selected == cmab_history[Len(cmab_history)].strategy
nonzero(c) == \E i \in 1..Len(c) : c[i] # 0

\* C17: an update leaves mu and the precision (and with it Sigma) of every
\* arm but the one of the most recent selection as they were, moves those of
\* that arm when the context is not zero, and changes no arm before the first
\* selection.
C17_OnlySelectedArm ==
  [][CmabUpdate =>
       IF cmab_history = <<>>
       THEN cmab_mu' = cmab_mu /\ Sigma_inv' = Sigma_inv
       ELSE /\ \A a \in CMAB_STRATEGIES \ {last_selected} :
                 cmab_mu'[a] = cmab_mu[a] /\ Sigma_inv'[a] = Sigma_inv[a]
            /\ nonzero(esm_context) =>
                 /\ cmab_mu'[last_selected] # cmab_mu[last_selected]
                 /\ Sigma_inv'[last_selected] # Sigma_inv[last_selected]]_vars

\* C17 witness: after two selections and two updates one arm has moved and
\* another arm that was selected is as it was constructed
C17_OneArmMoved ==
  /\ update_calls = 2
  /\ Len(cmab_history) = 2
  /\ cmab_history[1].strategy # cmab_history[2].strategy
  /\ \E a \in CMAB_STRATEGIES :
       /\ Sigma_inv[a] # Sigma_inv["coverage_balancer"]
       /\ cmab_mu[a].num # cmab_mu["coverage_balancer"].num
  /\ \E a \in {cmab_history[1].strategy, cmab_history[2].strategy} :
       /\ Det(Sigma_inv[a]) = 1
       /\ ~nonzero(cmab_mu[a].num)

\* C18: the update of a round uses the context recorded at the round's
\* selection: the precision of the selected arm grows by the outer product of
\* the recorded context.
C18_RecordedContext ==
  [][(CmabUpdate /\ cmab_history # <<>>) =>
       Sigma_inv'[last_selected] =
         MatAdd(Sigma_inv[last_selected],
                Outer(cmab_history[Len(cmab_history)].context))]_vars

C20_RewardBounds ==
  /\ reward >= -(cost_weight * 100)
  /\ reward <= uncertainty_weight * 100

\* C20 witness: a batch of one selected task, an rtt never measured before,
\* came back successful: dU = 0.59 and the reward is 0.7 * 0.59 - 0.3 / 5
C20_SingleTaskReward ==
  /\ Cardinality(rfu_cache) = 1
  /\ \E c \in rfu_cache : c[1][2] = "rtt" /\ c[2] = max_uncertainty /\ nmeas[c[1]] = 1
  /\ reward = 353

\* a step in which rfu.process_results ran, and a result list in which every
\* probe failed
RfuStep == processing_due /\ api_calls' = api_calls + 1
AllFailed ==
  /\ probe_results # EmptyBag
  /\ \A r \in BagToSet(probe_results) : ~r.success
EsmUntouched ==
  UNCHANGED <<beta_params, gauss_mu, nmeas, measurement_history, stability,
              probe_interval, elapsed>>

\* C21 as stated: when every result of a round failed, result processing
\* leaves every distribution, history, stability, probe interval and
\* last_probe_time as it was, and the reward is -w_cost.
C21_FailureBatch ==
  [][(RfuStep /\ AllFailed) =>
       /\ EsmUntouched
       /\ reward' = -(cost_weight * 100)]_vars

\* C21 amended: when every result of a round failed, result processing
\* leaves every distribution, history, stability, probe interval and
\* last_probe_time as it was, and the reward is -w_cost * |selected| / K_max.
C21_FailureBatchCost ==
  [][(RfuStep /\ AllFailed) =>
       /\ EsmUntouched
       /\ reward' = -((cost_weight * 100 * Cardinality(rfu_cache)) \div top_k)]_vars

\* C21 witness: a batch of one selected task came back failed and has been
\* processed: the reward is -0.3 / 5
C21_FailedBatchProcessed ==
  /\ AllFailed
  /\ snapshot_due
  /\ api_calls > 0
  /\ Cardinality(rfu_cache) = 1
  /\ reward = -60

\* -------------------------------------------------------------- C22, C23
\* C22: after any sequence of add_entity calls and topology events, every
\* entity of ESM has exactly one EntityState for each of the four metrics:
\* the state table holds a state under each (entity, metric), and nothing
\* else under that entity.
C22_OneStatePerMetric ==
  \A e \in Range(entities) :
    /\ \A m \in MetricSet : <<e, m>> \in states
    /\ Cardinality({k \in states : k[1] = e}) = Len(METRICS)

\* C22 witness: one entity was added by add_entity, then a topology event
\* reported another link: eight states
C22_TwoEntitiesEightStates ==
  /\ entities = <<L2, L1>>
  /\ topo_links = <<L1>>
  /\ Cardinality(states) = 8

\* a topology event that runs add_entity for an entity already registered
ReaddsRegistered ==
  /\ topo_links' # topo_links
  /\ Range(topo_links') \cap Range(entities) # {}

\* C23: add_entity is idempotent: a topology event that calls add_entity for
\* registered entities leaves their states as they were (posterior, history,
\* stability, probe interval and last_probe_time are not reset) and creates
\* no duplicate: the entity list keeps its entries and names no entity twice.
C23_AddEntityIdempotent ==
  [][ReaddsRegistered =>
       /\ \A k \in states :
            /\ k \in states'
            /\ beta_params'[k] = beta_params[k]
            /\ gauss_mu'[k] = gauss_mu[k]
            /\ nmeas'[k] = nmeas[k]
            /\ measurement_history'[k] = measurement_history[k]
            /\ stability'[k] = stability[k]
            /\ probe_interval'[k] = probe_interval[k]
            /\ elapsed'[k] = elapsed[k]
       /\ SubSeq(entities', 1, Len(entities)) = entities
       /\ Cardinality(Range(entities')) = Len(entities')]_vars

\* C23 witness: L2 was registered by add_entity and its liveness posterior
\* moved; the topology events then reported L1 and L2, calling add_entity
\* for both again
C23_RegisteredReported ==
  /\ entities = <<L2, L1>>
  /\ topo_links = <<L1, L2>>
  /\ beta_params[<<L2, "liveness">>] # <<beta_initial, beta_initial>>
  /\ nmeas[<<L1, "rtt">>] > 0

\* -------------------------------------------------------------- C24, C28
\* C24: with at least one entity, each of the four components of
\* get_context_vector (u_mean, s_mean, urgency_mean, event_rate) lies in
\* [0, 1], also when states are overdue by more than one probe interval and
\* when more than max_recent_events events are in the sliding window.
C24_ContextNormalized ==
  entities # <<>> =>
    \A i \in 1..n_features : get_context_vector[i] >= 0 /\ get_context_vector[i] <= 100

\* a step in which check_and_detect_events ran: it stored an event or
\* appended to a history
WindowPass ==
  events_deque' # events_deque \/ measurement_history' # measurement_history

\* the events a pass stored, and how many the store sheds for them
Stored == Cardinality(em_events')
Overflow == Max(0, Len(events_deque) + Stored - events_maxlen)

\* C28: the events are kept in a FIFO of at most 10000 entries, the oldest
\* evicted first: a pass that stores events leaves the store at most 10000
\* long, the new events at its end and what was its entry 1 + overflow at its
\* head; and after a detection pass has cleaned the sliding window every
\* event of recent_events has timestamp >= now - sliding_window, that is an
\* age of at most 300 s.
C28_StoreAndWindow ==
  [][WindowPass =>
       /\ Len(events_deque') = Len(events_deque) + Stored - Overflow
       /\ Len(events_deque') <= events_maxlen
       /\ Stored > 0 =>
            /\ events_deque'[Len(events_deque')] =
                 (IF events_deque = <<>> THEN 0 ELSE events_deque[Len(events_deque)]) + Stored
            /\ events_deque'[1] =
                 (IF Overflow < Len(events_deque) THEN events_deque[1 + Overflow]
                  ELSE events_deque'[Len(events_deque')] - Len(events_deque') + 1)
       /\ \A i \in DOMAIN recent_events' : recent_events'[i] <= sliding_window]_vars

\* C28 witness: the first event had left the window when the second pass ran:
\* the pass dropped it from recent_events and stored the second event
C28_OldEventCleaned ==
  /\ events_deque = <<1, 2>>
  /\ recent_events = <<0>>

\* ------------------------------------------------------------------ C25
\* C25: the priority stored for each task select_top_k returns is
\* 0.4 * eig + 0.3 * urgency + 0.2 * policy_match + 0.1 * event_trig of the
\* four values stored in the components of that task.
C25_PriorityOfComponents ==
  api_result # <<>> =>
    \A i \in DOMAIN api_result.result.tasks :
      LET t == api_result.result.tasks[i]
      IN t.priority = 4 * t.components.eig + 3 * t.components.urgency
                        + 2 * t.components.policy_match + 1 * t.components.event_trig

\* C25 witness: a returned task whose four components are all positive
C25_FourTermsPositive ==
  /\ api_result # <<>>
  /\ \E i \in DOMAIN api_result.result.tasks :
       LET c == api_result.result.tasks[i].components
       IN c.eig > 0 /\ c.urgency > 0 /\ c.policy_match > 0 /\ c.event_trig > 0

\* ------------------------------------------------------------------ C27
\* C27: CTLC moves an interval in the direction the stability asks for:
\* S > S_target and an interval above T_min give a strictly shorter interval,
\* S < S_target and an interval below T_max a strictly longer one, and
\* S = S_target keeps the interval.
C27_Direction ==
  api_result # <<>> =>
    LET T == api_result.current_interval
        S == api_result.stability
        new == api_result.new_interval
    IN /\ (S > target_stability /\ T > probe_interval_min) => new < T
       /\ (S < target_stability /\ T < probe_interval_max) => new > T
       /\ S = target_stability => new = T

\* C27 witness: a stability just above the target shortened a 10 s interval
\* by a thousandth
C27_ShortenedSlightly ==
  /\ api_result # <<>>
  /\ api_result.current_interval = probe_interval_default
  /\ api_result.stability = target_stability + 1
  /\ api_result.new_interval = 9990

\* -------------------------------------------------------------- C26, C29
\* a step in which select_tasks ran and returned a new record
SelectStep ==
  /\ api_calls' = api_calls + 1
  /\ api_result' # api_result

\* the policy match as stated: U / max_uncertainty under focus_uncertainty,
\* S / max_stability under highfreq_unstable, 1.0 under coverage_balancer,
\* and under event_trigger 1.0 for a raised trigger and 0.0 otherwise
StatedPolicyMatch(k, strategy) ==
  CASE strategy = "focus_uncertainty" ->
         (Max(0, Min(max_uncertainty, get_entropy(k))) * 100) \div max_uncertainty
    [] strategy = "highfreq_unstable" -> (stability[k] * 100) \div max_stability
    [] strategy = "coverage_balancer" -> 100
    [] strategy = "event_trigger" -> IF k \in event_triggers THEN 100 ELSE 0

\* C26: the policy_match of every task select_tasks returns is the stated
\* one for the strategy of the selection.
C26_PolicyMatch ==
  [][SelectStep =>
       \A i \in DOMAIN api_result'.result.tasks :
         LET t == api_result'.result.tasks[i]
         IN t.components.policy_match =
              StatedPolicyMatch(t.task, api_result'.result.strategy)]_vars

\* C29: every task select_tasks returns has priority >= 0, under every
\* strategy, also focus_uncertainty on states whose Gaussian posterior has a
\* small variance and a negative entropy, such as plr.
C29_PriorityNonNegative ==
  api_result # <<>> =>
    \A i \in DOMAIN api_result.result.tasks : api_result.result.tasks[i].priority >= 0

\* C29 witness: focus_uncertainty returned a plr task, whose entropy is
\* negative, with policy match 0 and priority 0
C29_PlrUnderFocus ==
  /\ api_result # <<>>
  /\ api_result.result.strategy = "focus_uncertainty"
  /\ \E i \in DOMAIN api_result.result.tasks :
       LET t == api_result.result.tasks[i]
       IN /\ t.task[2] = "plr"
          /\ get_entropy(t.task) < 0
          /\ t.components.policy_match = 0
          /\ t.priority = 0

\* ------------------------------------------------------------------ C30
\* the posterior the stated recursion gives the arm of the last selection
\* from its posterior before the update: precision + c c^T, and the mean
\* Sigma_new . (precision_old . mu_old + c * r)
StatedPosterior ==
  updated_arm(cmab_mu[last_selected], Sigma_inv[last_selected],
              Sigma_inv[last_selected], context_for_update, reward')

\* C30: after every update of an arm its posterior follows the recursion
\* precision_new = precision_old + (1 / nu) c c^T, Sigma_new its inverse,
\* mu_new = Sigma_new . (precision_old . mu_old + (1 / nu) c r), with
\* precision_old the precision before this update.
C30_Recursion ==
  [][(CmabUpdate /\ cmab_history # <<>>) =>
       /\ Sigma_inv'[last_selected] = StatedPosterior.Sigma_inv
       /\ cmab_mu'[last_selected] = StatedPosterior.mu]_vars

\* the rtt_spike events a pass emitted, and the earlier values of the
\* history of (L1, rtt) the pass compared the current mean with
SpikesEmitted == {e \in em_events' : e.event_type = "rtt_spike"}
EarlierValues ==
  LET h == measurement_history'[<<L1, "rtt">>] IN SubSeq(h, 1, Len(h) - 1)
CurrentValue ==
  LET h == measurement_history'[<<L1, "rtt">>] IN h[Len(h)]
SpikeCondition ==
  LET n == Len(EarlierValues)
      s1 == SeqSum(EarlierValues)
      s2 == SeqSumSq(EarlierValues)
  IN /\ \E i, j \in 1..n : EarlierValues[i] # EarlierValues[j]
     /\ (CurrentValue * n - s1) * (CurrentValue * n - s1) > 9 * (n * s2 - s1 * s1)

\* C31 as stated: a pass raises rtt_spike for (e, rtt) only when the earlier
\* values of the history are at least 10, their standard deviation is
\* positive and |current - historical mean| > 3 * historical std.
C31_TenEarlierValues ==
  [][(EmPass /\ SpikesEmitted # {}) =>
       /\ \A e \in SpikesEmitted : e.key[2] = "rtt"
       /\ Len(EarlierValues) >= 10
       /\ SpikeCondition]_vars

\* C31: a pass raises rtt_spike for (e, rtt) only when the history, the
\* current value included, has at least 10 points (the earlier values at
\* least 9), the standard deviation of the earlier values is positive and
\* |current - historical mean| > 3 * historical std.
C31_SpikeOnlyWhen ==
  [][(EmPass /\ SpikesEmitted # {}) =>
       /\ \A e \in SpikesEmitted : e.key[2] = "rtt"
       /\ Len(EarlierValues) >= 9
       /\ SpikeCondition]_vars

\* a pass has raised rtt_spike on a history of ten points, nine of them earlier
C31_SpikeOnNineEarlier ==
  /\ \E e \in em_events : e.event_type = "rtt_spike" /\ e.key = <<L1, "rtt">>
  /\ Len(measurement_history[<<L1, "rtt">>]) = 10

\* the steps a finished round of loop l took
RoundSteps(l) == Range(trace[l])
Updates(l) == Cardinality({i \in DOMAIN trace[l] : trace[l][i] = "CMAB"})

\* C32: every round in which APS selected at least one task and handed the
\* batch to the probe executor ends with exactly one update of the bandit,
\* whatever execute_batch returns.
C32_ClosedLoop ==
  \A l \in LoopIds :
    (pc[l] = "round_sleep" /\ "PE" \in RoundSteps(l)) => Updates(l) = 1

\* C37: the datapath of the probe executor is unset or one of the datapaths
\* registered in iads_datapaths.
C37_DatapathRegistered == datapath = 0 \/ datapath \in iads_datapaths

\* pe.execute_batch(selected_tasks) of loop l returns in this step (the
\* TimeoutError of its wait is not a return), and what it returns: [] when
\* it finds no datapath, self.probe_results after its wait
ExecuteBatchReturns(l) ==
  /\ pc[l] \in {"round_pe", "round_pe_wait"}
  /\ pc'[l] \in {"round_rfu", "round_sleep"}
  /\ timeouts' = timeouts
ReturnedResults(l) == IF pc[l] = "round_pe" THEN EmptyBag ELSE probe_results
BatchTasks(l) == {sel[l][i].task : i \in 1..Len(sel[l])}
ResultsOf(l, t) ==
  BagCount(ReturnedResults(l), {r \in BagToSet(ReturnedResults(l)) : r.task = t})

\* C34: execute_batch returns exactly one result for every task of the batch
\* it was given.
C34_OneResultPerTask ==
  [][\A l \in LoopIds :
       ExecuteBatchReturns(l) => \A t \in BatchTasks(l) : ResultsOf(l, t) = 1]_vars

\* C35: the list execute_batch returns holds results of the tasks of its own
\* batch only, and no more of them than the batch submitted: no worker of an
\* earlier batch has added a result to it.
C35_OwnResultsOnly ==
  [][\A l \in LoopIds :
       (ExecuteBatchReturns(l) /\ pc[l] = "round_pe_wait") =>
         /\ \A r \in BagToSet(probe_results) : r.task \in BatchTasks(l)
         /\ BagCardinality(probe_results) <= Len(sel[l])]_vars

\* a worker appended a result in this step
ResultAppended == BagCardinality(probe_results') = BagCardinality(probe_results) + 1
AppendedSuccesses ==
  BagCount(probe_results', {r \in BagToSet(probe_results') : r.success})
  - BagCount(probe_results, {r \in BagToSet(probe_results) : r.success})
\* execute_batch has waited for its workers and returns in this step
BatchCompletes(l) == ExecuteBatchReturns(l) /\ pc[l] = "round_pe_wait"

\* C36: every result a worker produces is counted exactly once, a success in
\* successful_probes and a failure in failed_probes, and when execute_batch
\* returns successful_probes + failed_probes <= total_probes, so that the
\* success rate is at most 1.
C36_StatisticsConsistent ==
  [][/\ ResultAppended =>
          /\ pe_stats'.successful_probes = pe_stats.successful_probes + AppendedSuccesses
          /\ pe_stats'.failed_probes = pe_stats.failed_probes + 1 - AppendedSuccesses
     /\ \A l \in LoopIds :
          BatchCompletes(l) =>
            /\ pe_stats'.successful_probes + pe_stats'.failed_probes <= pe_stats'.total_probes
            /\ pe_stats'.successful_probes <= pe_stats'.total_probes]_vars

\* aps.select_tasks() of loop l returned tasks in this step
RoundSelects(l) == pc[l] = "round_aps" /\ pc'[l] = "round_snap"

\* C33: the eig with which select_tasks scores a task whose state RFU has
\* updated is the expected information gain of the posterior the state has
\* when the selection is made.
C33_EigAtSelection ==
  [][\A l \in LoopIds :
       RoundSelects(l) =>
         \A i \in 1..Len(sel'[l]) :
           nmeas[sel'[l][i].task] > 0 =>
             sel'[l][i].components.eig = calculate_eig(sel'[l][i].task)]_vars

\* a probe loop that has not yet left its initialization: spawned, in its
\* first sleep, or in _perform_original_initialization
InitializationPCs ==
  {"spawned", "boot_sleep", "init_start", "init_batch", "init_pe_wait", "init_sleep"}

\* initialization_done is set only by a step of a probe loop that is still
\* in its initialization
SetOnlyByInitialization ==
  [][(~initialization_done /\ initialization_done') =>
       \E l \in LoopIds : pc[l] \in InitializationPCs]_vars

\* whenever monitoring is active and the task pool is not empty,
\* initialization_done eventually becomes true, unless monitoring is stopped
\* first
InitializationEventuallyDone ==
  (iads_monitoring_active /\ task_pool # <<>>)
    ~> (initialization_done \/ ~iads_monitoring_active)

\* C38: while monitoring is active and the task pool is not empty, the
\* initialization has completed or can still complete: initialization_done
\* is true, or a probe loop has not yet left its initialization, the one
\* place where initialization_done is set, or a start of the loop is pending.
C38_InitializationCompletes ==
  (iads_monitoring_active /\ task_pool # <<>> /\ ~initialization_done) =>
    \/ \E l \in LoopIds : pc[l] \in InitializationPCs
    \/ pending_starts > 0

====
